---- MODULE Spec2Model ----
(***************************************************************************)
(* Model of cellua's storage core: the chunked sparse Grid                 *)
(* (src/src/automaton/grid.py), the Neighborhood value type                 *)
(* (src/src/automaton/neighborhood.py) and the Region algebra               *)
(* (src/src/automaton/region.py).                                           *)
(*                                                                         *)
(* Representation of numpy values:                                         *)
(*  - a coordinate vector (1-D integer ndarray of size d) is a tuple of    *)
(*    length d;                                                            *)
(*  - an index into a d-dimensional ndarray is a tuple of length d of      *)
(*    0-based integers;                                                    *)
(*  - a chunk (ndarray of shape chunk_shape, created by np.zeros) is the   *)
(*    function from the indices that hold a non-zero cell to that cell:    *)
(*    every other index of chunk_shape reads 0;                            *)
(*  - any other ndarray is a record [shape, at] with at a function on      *)
(*    Indices(shape).                                                      *)
(***************************************************************************)
EXTENDS Integers, Sequences, FiniteSets, TLC

VARIABLES
    grid,      \* the Grid object: its fields, see Grid
    ret,       \* the last Grid operation, its arguments and what it returned
    written,   \* history: [only_sets |-> no mutator but set_cell has run,
               \*           last |-> coordinate -> value of its latest set_cell]
    nwrites,   \* number of set_cell / set_chunk calls made so far
    lifecycle  \* history: [stage |-> n, c, v]: the mutator calls so far are the
               \* first n of set_cell(c, v), del_chunk_if_empty(chunk_of(c)),
               \* set_cell(c, 0), del_chunk_if_empty(chunk_of(c)); stage -1
               \* once they are not
VARIABLE
    regions    \* the Region objects the caller holds, one or two, as they are
               \* now (<< >> where the caller works on a grid)
VARIABLES
    pattern,   \* the Pattern object the caller holds (None where it holds none)
    lua        \* the lua.sandbox module of the process: its global
               \* LUA_SAFE_NAMES and the LuaSandbox objects constructed so far
               \* (None where the module is not loaded)

vars == <<grid, ret, written, nwrites, lifecycle, regions, pattern, lua>>

\* Python's None, where a coordinate vector is optional: no coordinate vector
\* has length 0.
None == << >>

-----------------------------------------------------------------------------
(* Bounds of the model.                                                    *)

\* cell values written are in -1 .. MaxVal (np.byte holds -128..127)
MaxVal == 1
\* at most this many set_cell / set_chunk calls in one behaviour
MaxWrites == 2

\* neighborhoods queried reach at most this far along the first axis
MaxRadius == 1

\* dimension counts of the grids explored (test: dimensions_strategy, 1..10)
Dims == {1, 2, 10}
\* dimension counts of the grids the napkin queries are explored on
\* (chunk_size 4096, 64 and 16)
NapkinDims == {1, 2, 3}
\* dimension counts of the regions
RegionDims == {1, 2}
\* number of cells of the box the regions lie in: MaxCells x 1 in 1-D,
\* 2 x (MaxCells \div 2) in 2-D
MaxCells == 5
\* largest distance between the bounds of a neighborhood on its first axis,
\* where these are taken next to chunk boundaries
MaxSpan == 3

CellVals == (0 - 1)..MaxVal

-----------------------------------------------------------------------------
(* Integer helpers.                                                        *)

RECURSIVE Pow2(_)
Pow2(n) == IF n = 0 THEN 1 ELSE 2 * Pow2(n - 1)

\* Python's // on integers, for a positive divisor: floor division.
FloorDiv(a, b) == a \div b
\* Python's % on integers, for a positive divisor: result in [0, b).
FloorMod(a, b) == a % b

Max2(a, b) == IF a >= b THEN a ELSE b
Min2(a, b) == IF a <= b THEN a ELSE b

\* The tuple of length d with a on the first axis and b on every other one.
Vec(d, a, b) == [i \in 1..d |-> IF i = 1 THEN a ELSE b]

\* Component-wise arithmetic on coordinate vectors (numpy broadcasting of
\* equal-length 1-D arrays).
VAdd(u, v) == [i \in 1..Len(u) |-> u[i] + v[i]]
VSub(u, v) == [i \in 1..Len(u) |-> u[i] - v[i]]
VNeg(u) == [i \in 1..Len(u) |-> 0 - u[i]]

RECURSIVE MaxOf(_)
MaxOf(s) == IF Len(s) = 0 THEN 0 ELSE Max2(Head(s), MaxOf(Tail(s)))

\* smallest element of a non-empty tuple of integers
RECURSIVE MinOf(_)
MinOf(s) == IF Len(s) = 1 THEN Head(s) ELSE Min2(Head(s), MinOf(Tail(s)))

RECURSIVE Prod(_)
Prod(s) == IF Len(s) = 0 THEN 1 ELSE Head(s) * Prod(Tail(s))

\* The indices of an ndarray of the given shape.
Indices(shape) ==
    {idx \in [1..Len(shape) -> 0..(MaxOf(shape) - 1)] :
        \A i \in 1..Len(shape) : idx[i] < shape[i]}

\* Row-major (C order) flat position of an index, and back.
RECURSIVE Ravel(_, _)
Ravel(idx, shape) ==
    IF Len(idx) = 0 THEN 0
    ELSE Ravel(SubSeq(idx, 1, Len(idx) - 1), SubSeq(shape, 1, Len(shape) - 1))
            * shape[Len(shape)] + idx[Len(idx)]

Unravel(n, shape) ==
    [i \in 1..Len(shape) |->
        (n \div Prod(SubSeq(shape, i + 1, Len(shape)))) % shape[i]]

\* np.arange(a, b)
arange(a, b) == [i \in 1..Max2(b - a, 0) |-> a + i - 1]

\* ndarray.transpose(*axes), axes 0-based: axis n of the result is axis
\* axes[n] of the array.
transpose(arr, axes) ==
    LET shape == [n \in 1..Len(axes) |-> arr.shape[axes[n] + 1]]
        inv(m) == CHOOSE n \in 1..Len(axes) : axes[n] + 1 = m
    IN  [shape |-> shape,
         at |-> [idx \in Indices(shape) |->
                    arr.at[[m \in 1..Len(axes) |-> idx[inv(m)]]]]]

\* ndarray.reshape(newshape), C order
reshape(arr, newshape) ==
    [shape |-> newshape,
     at |-> [idx \in Indices(newshape) |->
                arr.at[Unravel(Ravel(idx, newshape), arr.shape)]]]

\* A Python slice start:stop on an axis of length n: the first position taken
\* and the number of positions taken (negative bounds count from the end,
\* bounds are clipped to the axis).
PySliceBound(b, n) == IF b < 0 THEN Max2(b + n, 0) ELSE Min2(b, n)
PySliceFirst(start, stop, n) == PySliceBound(start, n)
PySliceLen(start, stop, n) ==
    Max2(PySliceBound(stop, n) - PySliceBound(start, n), 0)

\* arr[tuple(map(slice, start, end))]
SliceArray(arr, start, end) ==
    LET d == Len(arr.shape)
        first == [i \in 1..d |-> PySliceFirst(start[i], end[i], arr.shape[i])]
        shape == [i \in 1..d |-> PySliceLen(start[i], end[i], arr.shape[i])]
    IN  [shape |-> shape,
         at |-> [idx \in Indices(shape) |->
                    arr.at[[i \in 1..d |-> first[i] + idx[i]]]]]

-----------------------------------------------------------------------------
(* utils/arrays.py                                                         *)

\* nd_cartesian_grid(*arrays): np.stack(np.meshgrid(*arrays, indexing='ij'), -1)
nd_cartesian_grid(arrays) ==
    LET n == Len(arrays)
        shape == [i \in 1..(n + 1) |-> IF i <= n THEN Len(arrays[i]) ELSE n]
    IN  [shape |-> shape,
         at |-> [idx \in Indices(shape) |->
                    arrays[idx[n + 1] + 1][idx[idx[n + 1] + 1] + 1]]]

-----------------------------------------------------------------------------
(* neighborhood.py: class Neighborhood                                     *)

\* Neighborhood.__init__: bounds is a (2, d) array, sorted along axis 0
Neighborhood(bounds) ==
    LET d == Len(bounds[1])
        lower == [i \in 1..d |-> Min2(bounds[1][i], bounds[2][i])]
        upper == [i \in 1..d |-> Max2(bounds[1][i], bounds[2][i])]
    IN  [dimensions |-> d,
         lower_bounds |-> lower,
         upper_bounds |-> upper,
         shape |-> [i \in 1..d |-> upper[i] - lower[i] + 1]]

\* Neighborhood.get_inverse: Neighborhood(-self.bounds)
get_inverse(self) ==
    Neighborhood(<<VNeg(self.lower_bounds), VNeg(self.upper_bounds)>>)

\* Neighborhood.get_offset_grid
get_offset_grid(self) ==
    nd_cartesian_grid([i \in 1..self.dimensions |->
                          arange(self.lower_bounds[i], self.upper_bounds[i] + 1)])

-----------------------------------------------------------------------------
(* grid.py: get_recommended_chunk_size                                     *)

max_power == 12

\* get_recommended_chunk_size with the exponent rounded up
get_recommended_chunk_size_ceil(d) ==
    IF ~(1 <= d /\ d <= max_power)
    THEN "ValueError"
    ELSE Pow2((max_power + d - 1) \div d)

get_recommended_chunk_size(d) ==
    IF ~(1 <= d /\ d <= max_power)
    THEN "ValueError"     \* the exception object is returned, not raised
    ELSE LET q == max_power \div d
         IN  Pow2(IF q = 0 THEN 1 ELSE q)

-----------------------------------------------------------------------------
(* Chunks.                                                                 *)

\* np.zeros(chunk_shape, cell_dtype)
ZeroChunk == << >>

\* chunk[tuple(index)]
ChunkAt(chunk, idx) == IF idx \in DOMAIN chunk THEN chunk[idx] ELSE 0

\* chunk[tuple(index)] = v
ChunkPut(chunk, idx, v) ==
    IF v = 0
    THEN [j \in (DOMAIN chunk) \ {idx} |-> chunk[j]]
    ELSE [j \in (DOMAIN chunk) \cup {idx} |-> IF j = idx THEN v ELSE chunk[j]]

\* chunk.any()
ChunkAny(chunk) == DOMAIN chunk # {}

\* dict helpers for grid._chunks
DictPut(dict, key, val) ==
    [k \in (DOMAIN dict) \cup {key} |-> IF k = key THEN val ELSE dict[k]]
DictDel(dict, key) == [k \in (DOMAIN dict) \ {key} |-> dict[k]]

-----------------------------------------------------------------------------
(* grid.py: class Grid.  Every method is an operator from the object (and  *)
(* the arguments) to [self |-> the object afterwards, ret |-> the value    *)
(* returned].                                                              *)

\* Grid.__init__
Grid(d) ==
    LET cs == get_recommended_chunk_size(d)
    IN  [dimensions |-> d,
         chunk_size |-> cs,
         chunk_shape |-> [i \in 1..d |-> cs],
         empty_chunk_prototype |-> ZeroChunk,
         chunks |-> << >>]

\* Grid(dimensions) as a call that may raise: get_recommended_chunk_size
\* returns its ValueError for a dimension count outside 1..max_power, which
\* __init__ keeps as chunk_size; (chunk_size,) * dimensions is then the
\* empty tuple for dimensions <= 0, and np.zeros raises TypeError on a shape
\* that holds the exception object.
Grid_new(dimensions) ==
    LET size_is_exception == ~(1 <= dimensions /\ dimensions <= max_power)
        chunk_shape_len == IF dimensions > 0 THEN dimensions ELSE 0
    IN  IF size_is_exception /\ chunk_shape_len > 0
        THEN [ret |-> None, exc |-> "TypeError"]
        ELSE [ret |-> Grid(dimensions), exc |-> ""]

\* Grid.get_coords_pair.  np.array(global_coords) // self.chunk_shape and
\* % self.chunk_shape broadcast the two vectors: a vector of length 1 is
\* stretched to the length of the other, and any other pair of different
\* lengths raises ValueError (exc; "" when nothing is raised).
get_coords_pair(self, global_coords) ==
    LET n == Max2(Len(global_coords), Len(self.chunk_shape))
        at(v, j) == IF Len(v) = 1 THEN v[1] ELSE v[j]
    IN  IF Len(global_coords) \notin {1, n} \/ Len(self.chunk_shape) \notin {1, n}
        THEN [chunk |-> None, local |-> None, exc |-> "ValueError"]
        ELSE [chunk |-> [i \in 1..n |->
                            FloorDiv(at(global_coords, i), at(self.chunk_shape, i))],
              local |-> [i \in 1..n |->
                            FloorMod(at(global_coords, i), at(self.chunk_shape, i))],
              exc |-> ""]

\* Grid.has_chunk
has_chunk(self, chunk_coords) ==
    chunk_coords # None /\ chunk_coords \in DOMAIN self.chunks

\* get_chunk as the legacy grid had it: a chunk that is not stored is created
\* in the chunk map
get_chunk_inserting(self, chunk_coords) ==
    IF chunk_coords # None /\ chunk_coords \in DOMAIN self.chunks
    THEN [self |-> self, ret |-> self.chunks[chunk_coords]]
    ELSE [self |-> [self EXCEPT !.chunks =
                        DictPut(@, chunk_coords, self.empty_chunk_prototype)],
          ret |-> self.empty_chunk_prototype]

\* get_chunk that hands out the blank prototype itself for a chunk that is
\* not stored
get_chunk_shared(self, chunk_coords) ==
    IF chunk_coords # None /\ chunk_coords \in DOMAIN self.chunks
    THEN [self |-> self, ret |-> self.chunks[chunk_coords],
          ref |-> <<"chunk", chunk_coords>>]
    ELSE [self |-> self, ret |-> self.empty_chunk_prototype,
          ref |-> <<"prototype", None>>]

\* Grid.get_chunk: the stored chunk, or a copy of the blank prototype.  ret
\* is the array's content and ref the array object returned: the chunk
\* stored under a key, or the new array that .copy() made.
get_chunk(self, chunk_coords) ==
    IF chunk_coords # None /\ chunk_coords \in DOMAIN self.chunks
    THEN [self |-> self, ret |-> self.chunks[chunk_coords],
          ref |-> <<"chunk", chunk_coords>>]
    ELSE [self |-> self, ret |-> self.empty_chunk_prototype,
          ref |-> <<"copy", None>>]

\* chunk[tuple(index)] = v by a caller holding the array object ref with
\* content chunk: the write lands in the grid where the object is one the
\* grid holds.  ret: the content of the array afterwards.
chunk_setitem(self, ref, chunk, index, v) ==
    [self |-> IF ref[1] = "chunk"
              THEN [self EXCEPT !.chunks[ref[2]] = ChunkPut(@, index, v)]
              ELSE IF ref[1] = "prototype"
              THEN [self EXCEPT !.empty_chunk_prototype = ChunkPut(@, index, v)]
              ELSE self,
     ret |-> ChunkPut(chunk, index, v)]

\* Grid.is_chunk_empty
is_chunk_empty(self, chunk_coords) ==
    IF ~has_chunk(self, chunk_coords)
    THEN [self |-> self, ret |-> TRUE]
    ELSE LET r == get_chunk(self, chunk_coords)
         IN  [self |-> r.self, ret |-> ~ChunkAny(r.ret)]

\* is_empty that takes a stored chunk for a non-empty one
is_empty_unless_stored(self) ==
    [self |-> self, ret |-> DOMAIN self.chunks = {}]

\* Grid.is_empty
is_empty(self) ==
    [self |-> self,
     ret |-> ~(\E k \in DOMAIN self.chunks : ChunkAny(self.chunks[k]))]

\* Grid.set_chunk
set_chunk(self, chunk_coords, new_chunk) ==
    [self |-> [self EXCEPT !.chunks = DictPut(@, chunk_coords, new_chunk)],
     ret |-> None]

\* del_chunk that empties the whole chunk map
del_chunk_clearing(self, chunk_coords) ==
    IF has_chunk(self, chunk_coords)
    THEN [self |-> [self EXCEPT !.chunks = << >>], ret |-> None]
    ELSE [self |-> self, ret |-> None]

\* Grid.del_chunk
del_chunk(self, chunk_coords) ==
    IF has_chunk(self, chunk_coords)
    THEN [self |-> [self EXCEPT !.chunks = DictDel(@, chunk_coords)],
          ret |-> None]
    ELSE [self |-> self, ret |-> None]

\* del_chunk_if_empty without the emptiness test
del_chunk_if_empty_untested(self, chunk_coords) ==
    del_chunk(self, chunk_coords)

\* Grid.del_chunk_if_empty
del_chunk_if_empty(self, chunk_coords) ==
    LET e == is_chunk_empty(self, chunk_coords)
    IN  IF e.ret THEN del_chunk(e.self, chunk_coords)
        ELSE [self |-> e.self, ret |-> None]

\* set_cell without the set_chunk of a chunk that was not stored: the write
\* goes to the copy get_chunk returned
set_cell_unstored(self, global_coords, new_state) ==
    LET p == get_coords_pair(self, global_coords)
        c == get_chunk(self, p.chunk)
    IN  [self |-> IF has_chunk(c.self, p.chunk)
                  THEN [c.self EXCEPT !.chunks[p.chunk] =
                                        ChunkPut(c.ret, p.local, new_state)]
                  ELSE c.self,
         ret |-> None]

\* set_cell that collects the chunk when the write leaves it all-zero
set_cell_collecting(self, global_coords, new_state) ==
    LET p == get_coords_pair(self, global_coords)
        put == ChunkPut(get_chunk(self, p.chunk).ret, p.local, new_state)
    IN  [self |-> IF ChunkAny(put)
                  THEN [self EXCEPT !.chunks = DictPut(@, p.chunk, put)]
                  ELSE del_chunk(self, p.chunk).self,
         ret |-> None,
         exc |-> ""]

\* Grid.set_cell.  `chunk` is the array object stored under chunk_coords
\* (get_chunk returned the stored object, or set_chunk has just stored the
\* fresh one), so the item assignment writes into the stored chunk.  exc is
\* the exception the call raises ("" for none): the one of get_coords_pair,
\* or, from the item assignment, IndexError for an index longer than the
\* chunk has axes and OverflowError for an integer outside np.byte.
set_cell(self, global_coords, new_state) ==
    LET p == get_coords_pair(self, global_coords)
        c == get_chunk(self, p.chunk)
        s == IF ~has_chunk(c.self, p.chunk)
             THEN set_chunk(c.self, p.chunk, c.ret).self
             ELSE c.self
        exc == IF Len(p.local) > self.dimensions THEN "IndexError"
               ELSE IF new_state \notin (0 - 128)..127 THEN "OverflowError"
               ELSE ""
    IN  IF p.exc # ""
        THEN [self |-> self, ret |-> None, exc |-> p.exc]
        ELSE [self |-> IF exc = "" /\ has_chunk(s, p.chunk)
                       THEN [s EXCEPT !.chunks[p.chunk] =
                                         ChunkPut(c.ret, p.local, new_state)]
                       ELSE s,
              ret |-> None,
              exc |-> exc]

\* Grid.get_cell.  exc as in set_cell.
get_cell(self, global_coords) ==
    LET p == get_coords_pair(self, global_coords)
        c == get_chunk(self, p.chunk)
    IN  IF p.exc # ""
        THEN [self |-> self, ret |-> None, exc |-> p.exc]
        ELSE IF Len(p.local) > self.dimensions
        THEN [self |-> c.self, ret |-> None, exc |-> "IndexError"]
        ELSE [self |-> c.self, ret |-> ChunkAt(c.ret, p.local), exc |-> ""]

\* Grid.empty_copy
empty_copy(self) == [self |-> self, ret |-> Grid(self.dimensions), exc |-> ""]

\* Grid.copy.  `for chunk_coords, chunk in self._chunks` iterates over the
\* keys of the dict and unpacks each key, a tuple of d integers, into the
\* two names: with d # 2 the unpacking raises ValueError, with d = 2 the
\* names are bound to two integers and chunk.copy() raises AttributeError.
\* With no chunk stored the loop body is never reached.
copy(self) ==
    IF DOMAIN self.chunks = {}
    THEN [self |-> self, ret |-> empty_copy(self).ret, exc |-> ""]
    ELSE [self |-> self, ret |-> None,
          exc |-> IF self.dimensions = 2 THEN "AttributeError" ELSE "ValueError"]

\* Grid.__iter__: the (chunk_key, chunk) pairs of the chunk map
GridIter(self) ==
    [self |-> self,
     ret |-> {<<k, self.chunks[k]>> : k \in DOMAIN self.chunks}]

\* get_chunk_neighborhood with the upper bounds divided like the lower ones
get_chunk_neighborhood_floor(self, neighborhood) ==
    LET d == Len(neighborhood.lower_bounds)
    IN  Neighborhood(<<[i \in 1..d |->
                          FloorDiv(neighborhood.lower_bounds[i], self.chunk_shape[i])],
                       [i \in 1..d |->
                          FloorDiv(neighborhood.upper_bounds[i], self.chunk_shape[i])]>>)

\* get_chunk_neighborhood with the upper bounds rounded up past a multiple of
\* the chunk size
get_chunk_neighborhood_over(self, neighborhood) ==
    LET d == Len(neighborhood.lower_bounds)
    IN  Neighborhood(<<[i \in 1..d |->
                          FloorDiv(neighborhood.lower_bounds[i], self.chunk_shape[i])],
                       [i \in 1..d |->
                          FloorDiv(neighborhood.upper_bounds[i], self.chunk_shape[i]) + 1]>>)

\* get_chunk_neighborhood with divisions that truncate toward zero
get_chunk_neighborhood_trunc(self, neighborhood) ==
    LET d == Len(neighborhood.lower_bounds)
        quot(x, y) == IF x >= 0 THEN x \div y ELSE 0 - ((0 - x) \div y)
    IN  Neighborhood(<<[i \in 1..d |->
                          quot(neighborhood.lower_bounds[i], self.chunk_shape[i])],
                       [i \in 1..d |->
                          quot(neighborhood.upper_bounds[i] - 1,
                               self.chunk_shape[i]) + 1]>>)

\* Grid.get_chunk_neighborhood
get_chunk_neighborhood(self, neighborhood) ==
    LET d == Len(neighborhood.lower_bounds)
        chunk_lower_bounds ==
            [i \in 1..d |->
                FloorDiv(neighborhood.lower_bounds[i], self.chunk_shape[i])]
        chunk_upper_bounds ==
            [i \in 1..d |->
                FloorDiv(neighborhood.upper_bounds[i] - 1, self.chunk_shape[i]) + 1]
    IN  Neighborhood(<<chunk_lower_bounds, chunk_upper_bounds>>)

\* np.apply_along_axis(self.get_chunk, -1, ...): get_chunk on each coordinate
\* vector in turn, in C order of the leading axes.
RECURSIVE ApplyGetChunk(_, _, _)
ApplyGetChunk(self, keys, rets) ==
    IF Len(keys) = 0 THEN [self |-> self, ret |-> rets]
    ELSE LET r == get_chunk(self, Head(keys))
         IN  ApplyGetChunk(r.self, Tail(keys), Append(rets, r.ret))

\* get_chunk_napkin that reshapes without pairing each chunk axis with its
\* cell axis first
get_chunk_napkin_untransposed(self, chunk_coords, neighborhood) ==
    LET d == self.dimensions
        chunk_neighborhood == get_chunk_neighborhood(self, neighborhood)
        chunk_offsets == get_offset_grid(chunk_neighborhood)
        cnshape == chunk_neighborhood.shape
        \* chunk_coords + chunk_offsets, one coordinate vector per leading index
        keys == [n \in 1..Prod(cnshape) |->
                    [j \in 1..d |->
                        chunk_coords[j]
                        + chunk_offsets.at[Unravel(n - 1, cnshape) \o <<j - 1>>]]]
        applied == ApplyGetChunk(self, keys, << >>)
        shape0 == cnshape \o self.chunk_shape
        chunks0 ==
            [shape |-> shape0,
             at |-> [idx \in Indices(shape0) |->
                        ChunkAt(applied.ret[Ravel(SubSeq(idx, 1, d), cnshape) + 1],
                                SubSeq(idx, d + 1, 2 * d))]]
        axes == [m \in 1..(2 * d) |->
                    IF m % 2 = 1 THEN (m - 1) \div 2 ELSE (m \div 2) - 1 + d]
        chunks1 == chunks0
        chunks2 == reshape(chunks1,
                           [i \in 1..d |-> cnshape[i] * self.chunk_shape[i]])
    IN  [self |-> applied.self, ret |-> chunks2]

\* Grid.get_chunk_napkin
get_chunk_napkin(self, chunk_coords, neighborhood) ==
    LET d == self.dimensions
        chunk_neighborhood == get_chunk_neighborhood(self, neighborhood)
        chunk_offsets == get_offset_grid(chunk_neighborhood)
        cnshape == chunk_neighborhood.shape
        \* chunk_coords + chunk_offsets, one coordinate vector per leading index
        keys == [n \in 1..Prod(cnshape) |->
                    [j \in 1..d |->
                        chunk_coords[j]
                        + chunk_offsets.at[Unravel(n - 1, cnshape) \o <<j - 1>>]]]
        applied == ApplyGetChunk(self, keys, << >>)
        shape0 == cnshape \o self.chunk_shape
        chunks0 ==
            [shape |-> shape0,
             at |-> [idx \in Indices(shape0) |->
                        ChunkAt(applied.ret[Ravel(SubSeq(idx, 1, d), cnshape) + 1],
                                SubSeq(idx, d + 1, 2 * d))]]
        axes == [m \in 1..(2 * d) |->
                    IF m % 2 = 1 THEN (m - 1) \div 2 ELSE (m \div 2) - 1 + d]
        chunks1 == transpose(chunks0, axes)
        chunks2 == reshape(chunks1,
                           [i \in 1..d |-> cnshape[i] * self.chunk_shape[i]])
    IN  [self |-> applied.self, ret |-> chunks2]

\* get_cell_napkin that places the cell in the chunk napkin by its global
\* coordinates
get_cell_napkin_of_global(self, global_coords, neighborhood, chunk_napkin) ==
    LET d == self.dimensions
        p == get_coords_pair(self, global_coords)
        chunk_neighborhood == get_chunk_neighborhood(self, neighborhood)
        coords_within_cn ==
            [i \in 1..d |->
                (0 - chunk_neighborhood.lower_bounds[i]) * self.chunk_shape[i]
                + global_coords[i]]
        start == VAdd(coords_within_cn, neighborhood.lower_bounds)
        end == [i \in 1..d |->
                    coords_within_cn[i] + neighborhood.upper_bounds[i] + 1]
    IN  [self |-> self, ret |-> SliceArray(chunk_napkin, start, end),
         start |-> start, end |-> end]

\* Grid.get_cell_napkin with chunk_napkin given; start and end are the
\* bounds of the slices taken
get_cell_napkin_of(self, global_coords, neighborhood, chunk_napkin) ==
    LET d == self.dimensions
        p == get_coords_pair(self, global_coords)
        chunk_neighborhood == get_chunk_neighborhood(self, neighborhood)
        coords_within_cn ==
            [i \in 1..d |->
                (0 - chunk_neighborhood.lower_bounds[i]) * self.chunk_shape[i]
                + p.local[i]]
        start == VAdd(coords_within_cn, neighborhood.lower_bounds)
        end == [i \in 1..d |->
                    coords_within_cn[i] + neighborhood.upper_bounds[i] + 1]
    IN  [self |-> self, ret |-> SliceArray(chunk_napkin, start, end),
         start |-> start, end |-> end]

\* Grid.get_cell_napkin with chunk_napkin=None.  exc as in set_cell: the
\* slices of a coordinate vector longer than the napkin has axes raise
\* IndexError.
get_cell_napkin(self, global_coords, neighborhood) ==
    LET p == get_coords_pair(self, global_coords)
        n == get_chunk_napkin(self, p.chunk, neighborhood)
        r == get_cell_napkin_of(n.self, global_coords, neighborhood, n.ret)
    IN  IF p.exc # ""
        THEN [self |-> self, ret |-> None, exc |-> p.exc]
        ELSE IF Len(p.local) > self.dimensions
        THEN [self |-> self, ret |-> None, exc |-> "IndexError"]
        ELSE [self |-> r.self, ret |-> r.ret, exc |-> ""]

-----------------------------------------------------------------------------
(* ndarray operations used by region.py.  A boolean mask is an ndarray     *)
(* [shape, at] like the others; NoMask stands for mask=None.               *)

NoMask == [shape |-> << >>, at |-> << >>]
mask_is_None(mask) == mask.shape = << >>

\* ndarray.any(), ndarray.all(), np.count_nonzero
ArrayAny(arr) == \E idx \in Indices(arr.shape) : arr.at[idx]
ArrayAll(arr) == \A idx \in Indices(arr.shape) : arr.at[idx]
count_nonzero(arr) == Cardinality({idx \in Indices(arr.shape) : arr.at[idx]})

\* ndarray.copy()
ArrayCopy(arr) ==
    [shape |-> arr.shape, at |-> [idx \in Indices(arr.shape) |-> arr.at[idx]]]

\* np.zeros(shape, dtype=bool)
BoolZeros(shape) == [shape |-> shape, at |-> [idx \in Indices(shape) |-> FALSE]]

\* np.ones(shape, dtype=bool)
BoolOnes(shape) == [shape |-> shape, at |-> [idx \in Indices(shape) |-> TRUE]]

\* arr[i].any() for an index i on the first axis, negative i counting from
\* the end
RowAny(arr, i) ==
    LET k == IF i < 0 THEN i + arr.shape[1] ELSE i
    IN  \E idx \in Indices(arr.shape) : idx[1] = k /\ arr.at[idx]

\* np.moveaxis(arr, source, destination), axes 0-based
moveaxis(arr, source, destination) ==
    LET n == Len(arr.shape)
        rest == [m \in 1..(n - 1) |-> IF m - 1 < source THEN m - 1 ELSE m]
        order == [m \in 1..n |->
                    IF m - 1 < destination THEN rest[m]
                    ELSE IF m - 1 = destination THEN source
                    ELSE rest[m - 1]]
    IN  transpose(arr, order)

\* arr[start:stop] on the first axis
SliceFirstAxis(arr, start, stop) ==
    SliceArray(arr,
               [i \in 1..Len(arr.shape) |-> IF i = 1 THEN start ELSE 0],
               [i \in 1..Len(arr.shape) |-> IF i = 1 THEN stop ELSE arr.shape[i]])

\* np.flip(arr, axes): the axes of the set `axes` (0-based) reversed
flip(arr, axes) ==
    [shape |-> arr.shape,
     at |-> [idx \in Indices(arr.shape) |->
                arr.at[[i \in 1..Len(arr.shape) |->
                           IF (i - 1) \in axes THEN arr.shape[i] - 1 - idx[i]
                           ELSE idx[i]]]]]

-----------------------------------------------------------------------------
(* utils/convert.py                                                        *)

\* to_dimen: whether the argument converts to a dimension count
to_dimen_ok(dimensions) == dimensions >= 1

\* to_coords(coords, dimensions): whether a 1-D integer sequence converts;
\* dimensions = 0 stands for dimensions=None
to_coords_ok(coords, dimensions) ==
    IF dimensions = 0 THEN Len(coords) >= 1 ELSE Len(coords) = dimensions

\* to_bounds(bounds): a new (2, d) array holding the two corners sorted, so
\* that lower <= upper on each axis
to_bounds(bounds) ==
    LET d == Len(bounds[1])
    IN  <<[i \in 1..d |-> Min2(bounds[1][i], bounds[2][i])],
          [i \in 1..d |-> Max2(bounds[1][i], bounds[2][i])]>>

-----------------------------------------------------------------------------
(* region.py.  A region is a record: kind is its class; d is              *)
(* EmptyRegion._dimensions; bounds is the (2, d) array <<lower, upper>>    *)
(* (lower_bounds and upper_bounds are views of its rows); mask and count   *)
(* are MaskedRegion._mask and _count.  An exception raised by a call is    *)
(* the record Raised(name).                                                *)

\* EmptyRegion.__init__
EmptyRegion(d) ==
    [kind |-> "EmptyRegion", d |-> d, bounds |-> << >>, mask |-> NoMask,
     count |-> 0]

\* RectRegion.__init__
RectRegion(bounds) ==
    [kind |-> "RectRegion", d |-> 0, bounds |-> bounds, mask |-> NoMask,
     count |-> 0]

Raised(name) ==
    [kind |-> name, d |-> 0, bounds |-> << >>, mask |-> NoMask, count |-> 0]

Exceptions == {"ValueError", "TypeError"}

\* isinstance(r, RectRegion): MaskedRegion is a subclass
isRectRegion(r) == r.kind \in {"RectRegion", "MaskedRegion"}

\* Region.dimensions
region_dimensions(self) ==
    IF self.kind = "EmptyRegion" THEN self.d ELSE Len(self.bounds[1])

\* RectRegion.has_mask
has_mask(self) == self.kind = "MaskedRegion"

\* Region.is_empty (class attribute of EmptyRegion and RectRegion)
region_is_empty(self) == self.kind = "EmptyRegion"

\* RectRegion._shape_tuple, Region.shape
region_shape(self) ==
    IF self.kind = "EmptyRegion" THEN [i \in 1..self.d |-> 0]
    ELSE [i \in 1..Len(self.bounds[1]) |->
             self.bounds[2][i] - self.bounds[1][i] + 1]

\* MaskedRegion.__init__
MaskedRegion(bounds, mask) ==
    IF mask_is_None(mask) \/ ArrayAll(mask) \/ ~ArrayAny(mask)
       \/ mask.shape # region_shape(RectRegion(bounds))
    THEN Raised("ValueError")
    ELSE [kind |-> "MaskedRegion", d |-> 0, bounds |-> bounds, mask |-> mask,
          count |-> count_nonzero(mask)]

\* Region.count
region_count(self) ==
    IF self.kind = "EmptyRegion" THEN 0
    ELSE IF self.kind = "MaskedRegion" THEN self.count
    ELSE Prod(region_shape(self))

\* RectRegion.mask, MaskedRegion.mask
region_mask(self) ==
    IF self.kind = "MaskedRegion" THEN self.mask ELSE BoolOnes(region_shape(self))

\* Region.empty(arg) for an integer arg
Region_empty(arg) ==
    IF to_dimen_ok(arg) THEN EmptyRegion(arg) ELSE Raised("ValueError")

\* the while loops of Region.span
RECURSIVE IncreaseLower(_, _)
IncreaseLower(mask, lower) ==
    IF ~RowAny(mask, lower) THEN IncreaseLower(mask, lower + 1) ELSE lower

RECURSIVE DecreaseUpper(_, _)
DecreaseUpper(mask, upper) ==
    IF ~RowAny(mask, upper) THEN DecreaseUpper(mask, upper - 1) ELSE upper

\* the for loop of Region.span from `axis` on: bounds is changed in place.
\* One pass moves the axis first (moved), finds lower and upper, then
\* shrinks bounds and mask.
RECURSIVE Minify(_, _, _)
Minify(bounds, mask, axis) ==
    IF axis >= Len(bounds[1]) THEN [bounds |-> bounds, mask |-> mask]
    ELSE LET shrink(moved, lower, upper) ==
                 Minify(<<[bounds[1] EXCEPT ![axis + 1] = @ + lower],
                          [bounds[2] EXCEPT ![axis + 1] = @ + upper + 1]>>,
                        moveaxis(IF upper = -1
                                 THEN SliceFirstAxis(moved, lower, moved.shape[1])
                                 ELSE SliceFirstAxis(moved, lower, upper + 1),
                                 0, axis),
                        axis + 1)
             scan(moved) ==
                 shrink(moved, IncreaseLower(moved, 0), DecreaseUpper(moved, -1))
         IN  scan(moveaxis(mask, axis, 0))

\* Region.span without the loop that shrinks the box
span_array_unminified(bounds, mask) ==
    IF mask_is_None(mask)
    THEN [bounds |-> bounds, ret |-> RectRegion(bounds)]
    ELSE IF Len(mask.shape) # Len(bounds[1])
            \/ mask.shape # region_shape(RectRegion(bounds))
    THEN [bounds |-> bounds, ret |-> Raised("ValueError")]
    ELSE IF ~ArrayAny(mask)
    THEN [bounds |-> bounds, ret |-> Region_empty(Len(bounds[1]))]
    ELSE [bounds |-> bounds,
          ret |-> IF ~ArrayAll(mask)
                  THEN MaskedRegion(bounds, ArrayCopy(mask))
                  ELSE RectRegion(bounds)]

\* Region.span from line 91 on, with `bounds` a (2, d) array: the array as
\* the call leaves it, and the region returned (holding that array)
span_array(bounds, mask) ==
    LET dimensions == Len(bounds[1])
    IN  IF mask_is_None(mask)
        THEN [bounds |-> bounds, ret |-> RectRegion(bounds)]
        ELSE IF Len(mask.shape) # dimensions
                \/ mask.shape # region_shape(RectRegion(bounds))
        THEN [bounds |-> bounds, ret |-> Raised("ValueError")]
        ELSE IF ~ArrayAny(mask)
        THEN [bounds |-> bounds, ret |-> Region_empty(dimensions)]
        ELSE LET minified(m) ==
                     [bounds |-> m.bounds,
                      ret |-> IF ~ArrayAll(m.mask)
                              THEN MaskedRegion(m.bounds, ArrayCopy(m.mask))
                              ELSE RectRegion(m.bounds)]
             IN  minified(Minify(bounds, mask, 0))

\* Region.span(region, mask): the region given as the call leaves it, and
\* the region returned.  The bounds array of a RectRegion given is the one
\* the loop works on and the one the result holds.
span_region(region, mask) ==
    IF region.kind = "EmptyRegion"
    THEN [arg |-> region,
          ret |-> IF mask_is_None(mask) THEN region ELSE Raised("TypeError")]
    ELSE LET spanned(r) ==
                 [arg |-> [region EXCEPT !.bounds = r.bounds], ret |-> r.ret]
         IN  spanned(span_array(region.bounds, mask))

\* Region.span(bounds, mask) with bounds a (2, d) array-like: to_coords
\* raises ValueError and to_bounds converts
span_bounds(bounds, mask) == span_array(to_bounds(bounds), mask).ret

\* Region.span(coords, mask) with the cell taken for the upper corner of the
\* mask
span_coords_upper(coords, mask) ==
    IF ~to_coords_ok(coords, Len(mask.shape))
    THEN Raised("ValueError")
    ELSE LET lower_bounds ==
                 IF mask_is_None(mask) THEN coords
                 ELSE [i \in 1..Len(coords) |-> coords[i] - mask.shape[i] + 1]
         IN  span_array(<<lower_bounds, coords>>, mask).ret

\* Region.span(coords, mask) with coords a single cell
span_coords(coords, mask) ==
    IF ~to_coords_ok(coords, Len(mask.shape))
    THEN Raised("ValueError")
    ELSE LET upper_bounds ==
                 IF mask_is_None(mask) THEN coords
                 ELSE [i \in 1..Len(coords) |-> coords[i] + mask.shape[i] - 1]
         IN  span_array(<<coords, upper_bounds>>, mask).ret

\* Region.__contains__ for a position of self.dimensions coordinates, with
\* EmptyRegion._contains_position, RectRegion._contains_position,
\* MaskedRegion._contains_position and MaskedRegion._mask_contains
RectRegion_contains_position(self, coords) ==
    /\ \A i \in 1..Len(coords) : self.bounds[1][i] <= coords[i]
    /\ \A i \in 1..Len(coords) : coords[i] <= self.bounds[2][i]

mask_contains(self, coords) == self.mask.at[VSub(coords, self.bounds[1])]

contains_position(self, other) ==
    IF self.kind = "EmptyRegion" THEN FALSE
    ELSE IF self.kind = "MaskedRegion"
    THEN IF ~RectRegion_contains_position(self, other) THEN FALSE
         ELSE mask_contains(self, other)
    ELSE RectRegion_contains_position(self, other)

\* RectRegion.box, MaskedRegion.box, EmptyRegion.box
box(self) ==
    IF self.kind = "MaskedRegion" THEN span_bounds(self.bounds, NoMask) ELSE self

\* np.ndindex(*shape): the indices of the shape in row-major order
ndindex(shape) == [n \in 1..Prod(shape) |-> Unravel(n - 1, shape)]

\* list(region) without MaskedRegion's filter
region_iter_unfiltered(self) ==
    IF self.kind = "EmptyRegion" THEN << >>
    ELSE [n \in 1..Prod(region_shape(self)) |->
             VAdd(Unravel(n - 1, region_shape(self)), self.bounds[1])]

\* list(region): EmptyRegion.__iter__, RectRegion.__iter__ and
\* MaskedRegion.__iter__ (the box's positions filtered by _mask_contains)
region_iter(self) ==
    LET offsets == ndindex(region_shape(self))
        rect == [n \in 1..Len(offsets) |-> VAdd(offsets[n], self.bounds[1])]
        in_mask(coords) == mask_contains(self, coords)
    IN  IF self.kind = "EmptyRegion" THEN << >>
        ELSE IF self.kind = "MaskedRegion" THEN SelectSeq(rect, in_mask)
        ELSE rect

\* region.position_grid: EmptyRegion's (np.empty), and RectRegion's, that
\* MaskedRegion inherits
position_grid(self) ==
    IF self.kind = "EmptyRegion"
    THEN [shape |-> region_shape(self) \o <<self.d>>, at |-> << >>]
    ELSE nd_cartesian_grid([i \in 1..Len(self.bounds[1]) |->
                               arange(self.bounds[1][i], self.bounds[2][i] + 1)])

\* region.positions.tolist(): EmptyRegion's, RectRegion's
\* (position_grid.reshape(-1, d)) and MaskedRegion's
\* (np.transpose(np.nonzero(mask)) + lower_bounds)
positions(self) ==
    LET d == region_dimensions(self)
        rows(arr) == [n \in 1..arr.shape[1] |-> [i \in 1..d |-> arr.at[<<n - 1, i - 1>>]]]
        nonzero_mask(idx) == self.mask.at[idx]
        nonzero == SelectSeq(ndindex(self.mask.shape), nonzero_mask)
    IN  IF self.kind = "EmptyRegion" THEN << >>
        ELSE IF self.kind = "MaskedRegion"
        THEN [n \in 1..Len(nonzero) |-> VAdd(nonzero[n], self.bounds[1])]
        ELSE rows(reshape(position_grid(self), <<Prod(region_shape(self)), d>>))

\* np.clip(x, lo, hi)
clip(x, lo, hi) == Min2(hi, Max2(x, lo))

RECURSIVE RectRegion_op(_, _, _)

\* intersects by the bounding boxes alone
intersects_boxes(self, other) ==
    IF self.kind = "EmptyRegion" THEN FALSE
    ELSE IF region_is_empty(other) THEN FALSE
    ELSE \A i \in 1..Len(self.bounds[1]) :
             /\ self.bounds[1][i] <= other.bounds[2][i]
             /\ other.bounds[1][i] <= self.bounds[2][i]

\* RectRegion.intersects, EmptyRegion.intersects
intersects(self, other) ==
    IF self.kind = "EmptyRegion" THEN FALSE
    ELSE IF region_is_empty(other) THEN FALSE
    ELSE IF ~(\A i \in 1..Len(self.bounds[1]) :
                 /\ self.bounds[1][i] <= other.bounds[2][i]
                 /\ other.bounds[1][i] <= self.bounds[2][i])
    THEN FALSE
    ELSE IF ~(has_mask(self) \/ has_mask(other)) THEN TRUE
    ELSE ~region_is_empty(RectRegion_op(self, "&", other))

\* RectRegion.slices: the slice tuple as [start, stop], exc = "ValueError"
\* where it is raised, "False" where False is returned
slices(self, other) ==
    IF region_is_empty(other)
    THEN [exc |-> "False", start |-> << >>, stop |-> << >>]
    ELSE IF ~intersects(box(self), box(other))
    THEN [exc |-> "ValueError", start |-> << >>, stop |-> << >>]
    ELSE LET d == Len(self.bounds[1])
             shared(row) ==
                 [i \in 1..d |->
                     clip(self.bounds[row][i], other.bounds[1][i],
                          other.bounds[2][i]) - self.bounds[1][i]]
         IN  [exc |-> "",
              start |-> shared(1),
              stop |-> [i \in 1..d |-> shared(2)[i] + 1]]

\* arr[sl] for a slice tuple sl
SliceBy(arr, sl) == SliceArray(arr, sl.start, sl.stop)

\* BoolOp with ^= applied as |=
BoolOp_or_for_xor(op, a, b) ==
    IF op = "&" THEN a /\ b ELSE a \/ b

\* op on two booleans, as the in-place operators &=, |=, ^= apply it
BoolOp(op, a, b) ==
    IF op = "&" THEN a /\ b ELSE IF op = "|" THEN a \/ b ELSE a # b

\* arr[sl] = src, and arr[sl] op= src with op in {"&", "|", "^"}: the array
\* afterwards
UpdateSlice(arr, sl, op, src) ==
    LET d == Len(arr.shape)
        first == [i \in 1..d |-> PySliceFirst(sl.start[i], sl.stop[i], arr.shape[i])]
        len == [i \in 1..d |-> PySliceLen(sl.start[i], sl.stop[i], arr.shape[i])]
        inside(idx) == \A i \in 1..d : first[i] <= idx[i] /\ idx[i] < first[i] + len[i]
    IN  [shape |-> arr.shape,
         at |-> [idx \in Indices(arr.shape) |->
                    IF inside(idx)
                    THEN IF op = "="
                         THEN src.at[VSub(idx, first)]
                         ELSE BoolOp(op, arr.at[idx], src.at[VSub(idx, first)])
                    ELSE arr.at[idx]]]

\* EmptyRegion._op
EmptyRegion_op(self, op, other) == IF op = "&" THEN self ELSE other

\* RectRegion._op.  The scalar True is the all-true array of the shape of
\* the slice it is assigned to or combined with.
RectRegion_op(self, op, other) ==
    IF region_dimensions(self) # region_dimensions(other)
    THEN Raised("ValueError")
    ELSE IF region_is_empty(other) THEN EmptyRegion_op(other, op, self)
    ELSE IF op = "&" /\ ~intersects(span_region(self, NoMask).ret,
                                    span_region(other, NoMask).ret)
    THEN EmptyRegion(region_dimensions(self))
    ELSE LET d == Len(self.bounds[1])
             both(f(_, _), row) ==
                 [i \in 1..d |-> f(self.bounds[row][i], other.bounds[row][i])]
             lower_bounds == IF op = "&" THEN both(Max2, 1) ELSE both(Min2, 1)
             upper_bounds == IF op = "&" THEN both(Min2, 2) ELSE both(Max2, 2)
             masked(r, rself, rother, zeros) ==
                 LET self_mask ==
                         IF has_mask(self)
                         THEN SliceBy(region_mask(self), slices(self, r))
                         ELSE BoolOnes(SliceBy(zeros, rself).shape)
                     sliced_other_mask ==
                         IF has_mask(other)
                         THEN SliceBy(region_mask(other), slices(other, r))
                         ELSE BoolOnes(SliceBy(zeros, rother).shape)
                     combined(new_mask) ==
                         span_region(r, UpdateSlice(new_mask, rother, op,
                                                    sliced_other_mask)).ret
                 IN  combined(UpdateSlice(zeros, rself, "=", self_mask))
             spanned(r) ==
                 IF op = "&" /\ ~(has_mask(self) \/ has_mask(other))
                 THEN r
                 ELSE masked(r, slices(r, self), slices(r, other),
                             BoolZeros(region_shape(r)))
         IN  spanned(span_bounds(<<lower_bounds, upper_bounds>>, NoMask))

\* Region._boolean_op with `other` a region: self & other, self | other,
\* self ^ other
boolean_op(self, op, other) ==
    IF region_dimensions(self) = region_dimensions(other)
    THEN IF self.kind = "EmptyRegion" THEN EmptyRegion_op(self, op, other)
         ELSE RectRegion_op(self, op, other)
    ELSE Raised("ValueError")

\* _contains_region without the comparison of the cells where a region has
\* a mask: the boxes alone decide
contains_region_boxes(self, other) ==
    IF self.kind = "EmptyRegion" THEN region_is_empty(other)
    ELSE IF region_is_empty(other) THEN TRUE
    ELSE LET n == Max2(Len(self.bounds[1]), Len(other.bounds[1]))
             at(v, j) == IF Len(v) = 1 THEN v[1] ELSE v[j]
         IN  /\ \A i \in 1..n :
                   at(other.bounds[2], i) <= at(self.bounds[2], i)
             /\ \A i \in 1..n :
                   at(self.bounds[1], i) <= at(other.bounds[1], i)

\* Region.__contains__ for a region, with EmptyRegion._contains_region and
\* RectRegion._contains_region, where it returns.  The bounds of regions of
\* different dimension counts are compared as numpy broadcasts them: the
\* single coordinate of a 1-D region against every axis of the other.
contains_region(self, other) ==
    IF self.kind = "EmptyRegion" THEN region_is_empty(other)
    ELSE IF region_is_empty(other) THEN TRUE
    ELSE LET n == Max2(Len(self.bounds[1]), Len(other.bounds[1]))
             at(v, j) == IF Len(v) = 1 THEN v[1] ELSE v[j]
         IN  IF ~(/\ \A i \in 1..n :
                         at(other.bounds[2], i) <= at(self.bounds[2], i)
                  /\ \A i \in 1..n :
                         at(self.bounds[1], i) <= at(other.bounds[1], i))
             THEN FALSE
             ELSE IF ~(has_mask(self) \/ has_mask(other)) THEN TRUE
             ELSE region_is_empty(boolean_op(boolean_op(self, "&", other),
                                             "^", other))

\* numpy broadcasting of two shapes, aligned at their last axes
Broadcastable(s1, s2) ==
    \A j \in 1..Min2(Len(s1), Len(s2)) :
        LET a == s1[Len(s1) - j + 1]
            b == s2[Len(s2) - j + 1]
        IN  a = b \/ a = 1 \/ b = 1

\* whether `other in self` raises for two regions: the bounds do not
\* broadcast, or the boxes fit, a mask is involved and self & other raises
contains_raises(self, other) ==
    /\ isRectRegion(self) /\ isRectRegion(other)
    /\ region_dimensions(self) # region_dimensions(other)
    /\ \/ ~Broadcastable(<<Len(self.bounds[1])>>, <<Len(other.bounds[1])>>)
       \/ /\ \A i \in 1..Max2(Len(self.bounds[1]), Len(other.bounds[1])) :
                LET at(v, j) == IF Len(v) = 1 THEN v[1] ELSE v[j]
                IN  /\ at(other.bounds[2], i) <= at(self.bounds[2], i)
                    /\ at(self.bounds[1], i) <= at(other.bounds[1], i)
          /\ (has_mask(self) \/ has_mask(other))

\* (a == b).all() for two ndarrays that broadcast
BroadcastEqAll(a, b) ==
    LET n == Max2(Len(a.shape), Len(b.shape))
        dim(s, j) == IF j > n - Len(s) THEN s[j - (n - Len(s))] ELSE 1
        shape == [j \in 1..n |-> Max2(dim(a.shape, j), dim(b.shape, j))]
        pick(arr, idx) ==
            arr.at[[i \in 1..Len(arr.shape) |->
                       IF arr.shape[i] = 1 THEN 0
                       ELSE idx[i + (n - Len(arr.shape))]]]
    IN  \A idx \in Indices(shape) : pick(a, idx) = pick(b, idx)

\* the (2, d) bounds array as an ndarray
BoundsArray(bounds) ==
    [shape |-> <<2, Len(bounds[1])>>,
     at |-> [idx \in Indices(<<2, Len(bounds[1])>>) |->
                bounds[idx[1] + 1][idx[2] + 1]]]

\* EmptyRegion.__eq__
EmptyRegion_eq(self, other) == region_is_empty(other)

\* RectRegion.__eq__
RectRegion_eq(self, other) ==
    IF ~isRectRegion(other) THEN FALSE
    ELSE /\ BroadcastEqAll(BoundsArray(self.bounds), BoundsArray(other.bounds))
         /\ ~(has_mask(self) \/ has_mask(other))

\* MaskedRegion.__eq__
MaskedRegion_eq(self, other) ==
    /\ other.kind = "MaskedRegion"
    /\ BroadcastEqAll(BoundsArray(self.bounds), BoundsArray(other.bounds))
    /\ BroadcastEqAll(self.mask, other.mask)

\* whether a == b raises: the arrays compared do not broadcast
eq_raises(a, b) ==
    /\ isRectRegion(a) /\ isRectRegion(b)
    /\ \/ ~Broadcastable(<<2, Len(a.bounds[1])>>, <<2, Len(b.bounds[1])>>)
       \/ /\ a.kind = "MaskedRegion" /\ b.kind = "MaskedRegion"
          /\ BroadcastEqAll(BoundsArray(a.bounds), BoundsArray(b.bounds))
          /\ ~Broadcastable(a.mask.shape, b.mask.shape)

\* a == b: Python calls the __eq__ of b first where b's class is a subclass
\* of a's that overrides it (a RectRegion, b MaskedRegion)
region_eq(a, b) ==
    IF a.kind = "EmptyRegion" THEN EmptyRegion_eq(a, b)
    ELSE IF a.kind = "MaskedRegion" THEN MaskedRegion_eq(a, b)
    ELSE IF b.kind = "MaskedRegion" THEN MaskedRegion_eq(b, a)
    ELSE RectRegion_eq(a, b)

\* a != b: object.__ne__ negates __eq__
region_ne(a, b) == ~region_eq(a, b)

\* _offset of a masked region as RectRegion has it: the mask is not passed on
region_offset_unmasked(self, offset) ==
    IF self.kind = "EmptyRegion" THEN self
    ELSE span_bounds(<<VAdd(self.bounds[1], offset), VAdd(self.bounds[2], offset)>>,
                     NoMask)

\* EmptyRegion._offset, RectRegion._offset, MaskedRegion._offset
region_offset(self, offset) ==
    IF self.kind = "EmptyRegion" THEN self
    ELSE span_bounds(<<VAdd(self.bounds[1], offset), VAdd(self.bounds[2], offset)>>,
                     IF self.kind = "MaskedRegion" THEN self.mask ELSE NoMask)

\* Region.__add__, Region.__sub__
region_add(self, other) ==
    IF ~to_coords_ok(other, region_dimensions(self)) THEN Raised("ValueError")
    ELSE region_offset(self, other)

region_sub(self, other) ==
    IF ~to_coords_ok(other, region_dimensions(self)) THEN Raised("ValueError")
    ELSE region_offset(self, VNeg(other))

\* The axes argument of invert: None, or a tuple holding the set `axes` of
\* 0-based axes, () being the empty set
AxesNone == [none |-> TRUE, axes |-> {}]

\* axes = axes or None: an empty tuple is falsy
axes_or_None(axes) ==
    IF axes.none \/ axes.axes = {} THEN AxesNone ELSE axes

\* np.flip(arr, axes): None reverses every axis, a tuple the axes it holds
np_flip(arr, axes) ==
    flip(arr, IF axes.none THEN {i - 1 : i \in 1..Len(arr.shape)} ELSE axes.axes)

\* RectRegion.invert
RectRegion_invert(self, axes0) ==
    LET axes == axes_or_None(axes0)
        neg(row) == [i \in 1..Len(row) |->
                        IF axes.none \/ (i - 1) \in axes.axes
                        THEN 0 - row[i] ELSE row[i]]
    IN  span_bounds(<<neg(self.bounds[1]), neg(self.bounds[2])>>, NoMask)

\* MaskedRegion.invert with the mask flipped on the axes as they were given,
\* before `axes or None`
invert_axes_as_given(self, axes) ==
    IF self.kind = "EmptyRegion" THEN self
    ELSE IF self.kind = "MaskedRegion"
    THEN span_region(RectRegion_invert(self, axes), np_flip(self.mask, axes)).ret
    ELSE RectRegion_invert(self, axes)

\* EmptyRegion.invert, RectRegion.invert, MaskedRegion.invert
invert(self, axes) ==
    IF self.kind = "EmptyRegion" THEN self
    ELSE IF self.kind = "MaskedRegion"
    THEN span_region(RectRegion_invert(self, axes_or_None(axes)),
                     np_flip(self.mask, axes_or_None(axes))).ret
    ELSE RectRegion_invert(self, axes)

-----------------------------------------------------------------------------
(* Inputs explored.                                                        *)

\* Per-axis coordinates on both sides of the chunk boundaries at 0 and at
\* chunk_size.
AxisVals(cs) == {-1, 0, cs - 1, cs}

CellCoords(self) ==
    IF self.dimensions = 1
    THEN {Vec(1, a, a) : a \in AxisVals(self.chunk_size)}
    ELSE {Vec(self.dimensions, a, 0) : a \in AxisVals(self.chunk_size)}
         \cup {Vec(self.dimensions, a, -1) : a \in {-1, 0}}

ChunkCoords(self) ==
    {get_coords_pair(self, g).chunk : g \in CellCoords(self)}

\* chunks handed to set_chunk by a caller
NewChunks(self) ==
    {ZeroChunk} \cup
    {ChunkPut(ZeroChunk, Vec(self.dimensions, a, 0), MaxVal) :
        a \in {0, self.chunk_size - 1}}

\* rectangular neighborhoods handed to the napkin queries: any bounds within
\* MaxRadius on the first axis; on the other axes [-1, 1] for a 2-D grid and
\* [0, 0] above (a window of extent 1 there)
NbhdAxis1 ==
    {b \in (0 - MaxRadius..MaxRadius) \X (0 - MaxRadius..MaxRadius) : b[1] <= b[2]}
NbhdRest(d) == IF d = 2 THEN {<<-1, 1>>} ELSE {<<0, 0>>}
Nbhds(self) ==
    {Neighborhood(<<Vec(self.dimensions, a[1], b[1]),
                    Vec(self.dimensions, a[2], b[2])>>) :
        a \in NbhdAxis1, b \in NbhdRest(self.dimensions)}

\* neighborhoods whose first-axis bounds lie next to the chunk boundaries at
\* -chunk_size, 0 and chunk_size and are at most MaxSpan apart; [-1, 1] on
\* the other axes
BoundaryVals(cs) == {0 - cs - 1, 0 - cs, -1, 0, 1, cs - 1, cs, cs + 1}
BoundaryNbhds(self) ==
    {Neighborhood(<<Vec(self.dimensions, lo, -1), Vec(self.dimensions, hi, 1)>>) :
        <<lo, hi>> \in {b \in BoundaryVals(self.chunk_size)
                                \X BoundaryVals(self.chunk_size) :
                            b[1] <= b[2] /\ b[2] - b[1] <= MaxSpan}}

\* the box the regions explored lie in, with negative and positive
\* coordinates
UniverseBounds(d) ==
    IF d = 1 THEN <<(<<-2>>), <<MaxCells - 3>>>>
    ELSE <<(<<-1, -1>>), <<0, (MaxCells \div 2) - 2>>>>

\* the positions of the box <<lower, upper>> widened by `margin`
BoxPositions(bounds, margin) ==
    {p \in [1..Len(bounds[1]) ->
              (MinOf(bounds[1]) - margin)..(MaxOf(bounds[2]) + margin)] :
        \A i \in 1..Len(bounds[1]) :
            bounds[1][i] - margin <= p[i] /\ p[i] <= bounds[2][i] + margin}

\* every boolean mask of a shape
Masks(shape) == {[shape |-> shape, at |-> f] : f \in [Indices(shape) -> BOOLEAN]}

\* the regions Region.span builds from two corners of the box, in any order,
\* and a mask of their shape, as the tests' region_strategy draws them, and
\* the empty region
RegionsOf(d) ==
    {Region_empty(d)} \cup
    UNION {LET r == span_bounds(<<c1, c2>>, NoMask)
           IN  {span_region(r, m).ret : m \in Masks(region_shape(r))} :
              c1 \in BoxPositions(UniverseBounds(d), 0),
              c2 \in BoxPositions(UniverseBounds(d), 0)}

Regions == UNION {RegionsOf(d) : d \in RegionDims}

\* positions asked about: the box and the cells around it
Positions(d) == BoxPositions(UniverseBounds(d), 1)

\* offsets added to a region
Offsets(d) == {Vec(d, a, b) : a \in {-1, 0, 2}, b \in {0, 1}}

\* The axes arguments of invert: None and every sorted tuple of distinct axes
AxesArgs(d) ==
    {AxesNone} \cup {[none |-> FALSE, axes |-> A] : A \in SUBSET {i - 1 : i \in 1..d}}

-----------------------------------------------------------------------------
(* The Grid state machine.                                                 *)

\* op: the method called; g, k, v, n: its cell coordinates, chunk
\* coordinates, value or chunk, and neighborhood (None where it has none);
\* res: what it returned
Ret(op, g, k, v, n, res) ==
    [op |-> op, g |-> g, k |-> k, v |-> v, n |-> n, res |-> res]

MutatorOps == {"new", "set_cell", "set_chunk", "del_chunk", "del_chunk_if_empty"}

\* A behaviour is a sequence of mutator calls followed by one query: the
\* caller is ready for its next call while no query has been made.
Ready == ret.op \in MutatorOps

\* lifecycle after the mutator call op on cell g or chunk k with value v
LifecycleAfter(op, g, k, v) ==
    LET kc == IF lifecycle.stage > 0
              THEN get_coords_pair(grid, lifecycle.c).chunk ELSE None
    IN  IF lifecycle.stage = 0 /\ op = "set_cell"
        THEN [stage |-> 1, c |-> g, v |-> v]
        ELSE IF lifecycle.stage \in {1, 3} /\ op = "del_chunk_if_empty" /\ k = kc
        THEN [lifecycle EXCEPT !.stage = @ + 1]
        ELSE IF lifecycle.stage = 2 /\ op = "set_cell" /\ g = lifecycle.c /\ v = 0
        THEN [lifecycle EXCEPT !.stage = 3]
        ELSE [stage |-> -1, c |-> None, v |-> 0]

InitGrid(ds) ==
    /\ \E d \in ds : grid = Grid(d)
    /\ ret = Ret("new", None, None, None, None, None)
    /\ written = [only_sets |-> TRUE, last |-> << >>]
    /\ nwrites = 0
    /\ lifecycle = [stage |-> 0, c |-> None, v |-> 0]
    /\ regions = << >>
    /\ pattern = None
    /\ lua = None

SetCell ==
    /\ Ready
    /\ UNCHANGED <<regions, pattern, lua>>
    /\ nwrites < MaxWrites
    /\ \E g \in CellCoords(grid), v \in CellVals :
         LET r == set_cell(grid, g, v)
         IN  /\ grid' = r.self
             /\ ret' = Ret("set_cell", g, get_coords_pair(grid, g).chunk, v,
                           None, r.ret)
             /\ written' = IF written.only_sets
                           THEN [written EXCEPT !.last = DictPut(@, g, v)]
                           ELSE written
             /\ lifecycle' = LifecycleAfter("set_cell", g, None, v)
    /\ nwrites' = nwrites + 1

SetChunk ==
    /\ Ready
    /\ UNCHANGED <<regions, pattern, lua>>
    /\ nwrites < MaxWrites
    /\ \E k \in ChunkCoords(grid), c \in NewChunks(grid) :
         LET r == set_chunk(grid, k, c)
         IN  /\ grid' = r.self
             /\ ret' = Ret("set_chunk", None, k, c, None, r.ret)
             /\ lifecycle' = LifecycleAfter("set_chunk", None, k, 0)
    /\ written' = [only_sets |-> FALSE, last |-> << >>]
    /\ nwrites' = nwrites + 1

DelChunk ==
    /\ Ready
    /\ UNCHANGED <<regions, pattern, lua>>
    /\ \E k \in ChunkCoords(grid) :
         LET r == del_chunk(grid, k)
         IN  /\ grid' = r.self
             /\ ret' = Ret("del_chunk", None, k, None, None, r.ret)
             /\ lifecycle' = LifecycleAfter("del_chunk", None, k, 0)
    /\ written' = [only_sets |-> FALSE, last |-> << >>]
    /\ UNCHANGED nwrites

DelChunkIfEmpty ==
    /\ Ready
    /\ UNCHANGED <<regions, pattern, lua>>
    /\ \E k \in ChunkCoords(grid) :
         LET r == del_chunk_if_empty(grid, k)
         IN  /\ grid' = r.self
             /\ ret' = Ret("del_chunk_if_empty", None, k, None, None, r.ret)
             /\ lifecycle' = LifecycleAfter("del_chunk_if_empty", None, k, 0)
    /\ written' = [only_sets |-> FALSE, last |-> << >>]
    /\ UNCHANGED nwrites

GetCell ==
    /\ Ready
    /\ \E g \in CellCoords(grid) :
         LET r == get_cell(grid, g)
         IN  /\ grid' = r.self
             /\ ret' = Ret("get_cell", g, None, None, None, r.ret)
    /\ UNCHANGED <<written, nwrites, lifecycle, regions, pattern, lua>>

HasChunk ==
    /\ Ready
    /\ \E k \in ChunkCoords(grid) \cup {None} :
         /\ grid' = grid
         /\ ret' = Ret("has_chunk", None, k, None, None, has_chunk(grid, k))
    /\ UNCHANGED <<written, nwrites, lifecycle, regions, pattern, lua>>

GetChunk ==
    /\ Ready
    /\ \E k \in ChunkCoords(grid) \cup {None} :
         LET r == get_chunk(grid, k)
         IN  /\ grid' = r.self
             /\ ret' = Ret("get_chunk", None, k, None, None, r.ret)
    /\ UNCHANGED <<written, nwrites, lifecycle, regions, pattern, lua>>

IsChunkEmpty ==
    /\ Ready
    /\ \E k \in ChunkCoords(grid) :
         LET r == is_chunk_empty(grid, k)
         IN  /\ grid' = r.self
             /\ ret' = Ret("is_chunk_empty", None, k, None, None, r.ret)
    /\ UNCHANGED <<written, nwrites, lifecycle, regions, pattern, lua>>

IsEmpty ==
    /\ Ready
    /\ LET r == is_empty(grid)
       IN  /\ grid' = r.self
           /\ ret' = Ret("is_empty", None, None, None, None, r.ret)
    /\ UNCHANGED <<written, nwrites, lifecycle, regions, pattern, lua>>

\* try: grid.empty_copy() / except Exception.  v: the grid returned; res:
\* the name of the exception, "" for none
EmptyCopy ==
    /\ Ready
    /\ LET r == empty_copy(grid)
       IN  /\ grid' = r.self
           /\ ret' = Ret("empty_copy", None, None, r.ret, None, r.exc)
    /\ UNCHANGED <<written, nwrites, lifecycle, regions, pattern, lua>>

\* try: grid.copy() / except Exception
Copy ==
    /\ Ready
    /\ LET r == copy(grid)
       IN  /\ grid' = r.self
           /\ ret' = Ret("copy", None, None, r.ret, None, r.exc)
    /\ UNCHANGED <<written, nwrites, lifecycle, regions, pattern, lua>>

Iter ==
    /\ Ready
    /\ LET r == GridIter(grid)
       IN  /\ grid' = r.self
           /\ ret' = Ret("iter", None, None, None, None, r.ret)
    /\ UNCHANGED <<written, nwrites, lifecycle, regions, pattern, lua>>

GetChunkNeighborhoodOf(ns) ==
    /\ Ready
    /\ \E n \in ns :
         /\ grid' = grid
         /\ ret' = Ret("get_chunk_neighborhood", None, None, None, n,
                       get_chunk_neighborhood(grid, n))
    /\ UNCHANGED <<written, nwrites, lifecycle, regions, pattern, lua>>

GetChunkNeighborhood == GetChunkNeighborhoodOf(Nbhds(grid))

GetChunkNeighborhoodAtBoundaries == GetChunkNeighborhoodOf(BoundaryNbhds(grid))

\* test_inverse_chunk_neighborhood: the chunk neighborhood of the inverse
\* and the inverse of the chunk neighborhood
InverseChunkNeighborhood ==
    /\ Ready
    /\ \E n \in BoundaryNbhds(grid) :
         /\ grid' = grid
         /\ ret' = Ret("inverse_chunk_neighborhood", None, None, None, n,
                       [chunk_neighborhood_of_inverse |->
                            get_chunk_neighborhood(grid, get_inverse(n)),
                        inverse_of_chunk_neighborhood |->
                            get_inverse(get_chunk_neighborhood(grid, n))])
    /\ UNCHANGED <<written, nwrites, lifecycle, regions, pattern, lua>>

\* get_coords_pair of a cell next to the chunk boundaries at -chunk_size, 0
\* and chunk_size
GetCoordsPair ==
    /\ Ready
    /\ \E a \in BoundaryVals(grid.chunk_size), b \in {-1, 0} :
         LET g == Vec(grid.dimensions, a, b)
             p == get_coords_pair(grid, g)
         IN  /\ grid' = grid
             /\ ret' = Ret("get_coords_pair", g, None, None, None,
                           [chunk |-> p.chunk, local |-> p.local])
    /\ UNCHANGED <<written, nwrites, lifecycle, regions, pattern, lua>>

\* the chunk napkin is a large array: ret keeps its shape
GetChunkNapkin ==
    /\ Ready
    /\ \E k \in ChunkCoords(grid), n \in Nbhds(grid) :
         LET r == get_chunk_napkin(grid, k, n)
         IN  /\ grid' = r.self
             /\ ret' = Ret("get_chunk_napkin", None, k, None, n, r.ret.shape)
    /\ UNCHANGED <<written, nwrites, lifecycle, regions, pattern, lua>>

GetCellNapkin ==
    /\ Ready
    /\ \E g \in CellCoords(grid), n \in Nbhds(grid) :
         LET r == get_cell_napkin(grid, g, n)
         IN  /\ grid' = r.self
             /\ ret' = Ret("get_cell_napkin", g, None, None, n, r.ret)
    /\ UNCHANGED <<written, nwrites, lifecycle, regions, pattern, lua>>

\* napkin = get_chunk_napkin(k, N) for the chunk k of a cell g, then
\* get_cell_napkin(g, N, napkin) and get_cell_napkin(local, N, napkin) with
\* the local coordinates of g
GetCellNapkinOf ==
    /\ Ready
    /\ \E g \in CellCoords(grid), n \in Nbhds(grid) :
         LET p == get_coords_pair(grid, g)
             napkin == get_chunk_napkin(grid, p.chunk, n)
             r == get_cell_napkin_of(napkin.self, g, n, napkin.ret)
             l == get_cell_napkin_of(r.self, p.local, n, napkin.ret)
         IN  /\ grid' = l.self
             /\ ret' = Ret("get_cell_napkin(chunk_napkin)", g, p.chunk, None, n,
                           [of_global |-> r.ret, of_local |-> l.ret,
                            start |-> r.start, end |-> r.end,
                            napkin_shape |-> napkin.ret.shape])
    /\ UNCHANGED <<written, nwrites, lifecycle, regions, pattern, lua>>

\* Spec: every mutator and the chunk-map queries, on grids of every
\* dimension count of Dims.
Init == InitGrid(Dims)

Next ==
    \/ SetCell
    \/ SetChunk
    \/ DelChunk
    \/ DelChunkIfEmpty
    \/ GetCell
    \/ HasChunk
    \/ GetChunk
    \/ IsChunkEmpty
    \/ IsEmpty
    \/ Iter
    \/ EmptyCopy
    \/ Copy

Spec == Init /\ [][Next]_vars

\* a = grid.get_chunk(k); b = grid.get_chunk(other); a[index] = v.  The
\* two calls return one array object where both return the same object of
\* the grid, and two objects otherwise.  g: index; res: the content of b
\* before and after the write
GetChunkSetItem ==
    /\ Ready
    /\ \E k \in ChunkCoords(grid), other \in ChunkCoords(grid),
          g \in CellCoords(grid), v \in CellVals \ {0} :
         LET index == get_coords_pair(grid, g).local
             a == get_chunk(grid, k)
             b == get_chunk(a.self, other)
             w == chunk_setitem(b.self, a.ref, a.ret, index, v)
         IN  /\ grid' = w.self
             /\ ret' = Ret("get_chunk[]=", index, k, v, None,
                           [other |-> other,
                            before |-> b.ret,
                            after |-> IF a.ref = b.ref /\ a.ref[1] # "copy"
                                      THEN w.ret ELSE b.ret])
    /\ UNCHANGED <<written, nwrites, lifecycle, regions, pattern, lua>>

\* SpecSetItem: grids built by set_cell, then a write into a chunk that
\* get_chunk returned.
SetItemNext ==
    \/ SetCell
    \/ GetChunkSetItem

SpecSetItem == Init /\ [][SetItemNext]_vars

\* SpecNapkin: grids built by set_cell, then any query, the napkin queries
\* included.
NapkinInit == InitGrid(NapkinDims)

NapkinNext ==
    \/ SetCell
    \/ GetCell
    \/ HasChunk
    \/ GetChunk
    \/ IsChunkEmpty
    \/ IsEmpty
    \/ Iter
    \/ GetChunkNeighborhood
    \/ GetChunkNapkin
    \/ GetCellNapkin
    \/ GetCellNapkinOf

SpecNapkin == NapkinInit /\ [][NapkinNext]_vars

\* SpecNbhd: get_chunk_neighborhood and get_coords_pair on a new grid of
\* every dimension count (every chunk size from 2 to 4096), for
\* neighborhoods and cells at the chunk boundaries.
AllDims == 1..max_power

NbhdInit == InitGrid(AllDims)

NbhdNext ==
    \/ GetChunkNeighborhoodAtBoundaries
    \/ InverseChunkNeighborhood
    \/ GetCoordsPair

SpecNbhd == NbhdInit /\ [][NbhdNext]_vars

\* dimension counts handed to Grid(): from -MaxNegDimensions to
\* MaxDimensions, the valid ones and some on either side
MaxNegDimensions == 3
MaxDimensions == 20

\* try: grid = Grid(d) / except Exception: the grid held before is kept when
\* the construction raises.  v: the dimension count; res: the name of the
\* exception, "" when none was raised
NewGrid ==
    /\ \E d \in (0 - MaxNegDimensions)..MaxDimensions :
         LET r == Grid_new(d)
         IN  /\ grid' = IF r.exc = "" THEN r.ret ELSE grid
             /\ ret' = Ret("Grid", None, None, d, None, r.exc)
    /\ UNCHANGED <<written, nwrites, lifecycle, regions, pattern, lua>>

\* SpecNew: grids constructed one after the other, with any dimension count
SpecNew == NbhdInit /\ [][NewGrid]_vars

\* Coordinate vectors of every length from 1 to 3 handed to the cell
\* accessors, whatever the grid's dimension count
AnyCoords(self) ==
    {Vec(n, a, 0) : n \in NapkinDims, a \in {-1, 0, self.chunk_size}}

\* try: grid.set_cell(g, v) / except Exception.  v is a cell value or 128,
\* one past np.byte; NumPy stores 128 as -128 or raises OverflowError,
\* depending on its version (wraps).  res: the name of the exception, ""
\* for none.
TrySetCell ==
    /\ Ready
    /\ \E g \in AnyCoords(grid), v \in CellVals \cup {128}, wraps \in BOOLEAN :
         LET r == set_cell(grid, g, IF wraps /\ v = 128 THEN 0 - 128 ELSE v)
         IN  /\ grid' = r.self
             /\ ret' = Ret("try set_cell", g, None, v, None, r.exc)
    /\ UNCHANGED <<written, nwrites, lifecycle, regions, pattern, lua>>

\* try: grid.get_cell(g) / except Exception.  v: the value returned
TryGetCell ==
    /\ Ready
    /\ \E g \in AnyCoords(grid) :
         LET r == get_cell(grid, g)
         IN  /\ grid' = r.self
             /\ ret' = Ret("try get_cell", g, None, r.ret, None, r.exc)
    /\ UNCHANGED <<written, nwrites, lifecycle, regions, pattern, lua>>

\* try: grid.get_cell_napkin(g, n) / except Exception.  v: the array returned
TryGetCellNapkin ==
    /\ Ready
    /\ \E g \in AnyCoords(grid), n \in Nbhds(grid) :
         LET r == get_cell_napkin(grid, g, n)
         IN  /\ grid' = r.self
             /\ ret' = Ret("try get_cell_napkin", g, None, r.ret, n, r.exc)
    /\ UNCHANGED <<written, nwrites, lifecycle, regions, pattern, lua>>

\* SpecTry: grids built by set_cell, then one cell accessor called with
\* coordinates of any length and caught.
TryNext ==
    \/ SetCell
    \/ TrySetCell
    \/ TryGetCell
    \/ TryGetCellNapkin

SpecTry == NapkinInit /\ [][TryNext]_vars

-----------------------------------------------------------------------------
(* pattern.py: class Pattern, and its state machine: the caller holds a    *)
(* pattern and looks a cell up.                                            *)

\* Pattern.__init__
Pattern(cell_array, center_coords) ==
    [cell_array |-> cell_array,
     center_coords |-> center_coords,
     dimensions |-> Len(center_coords)]

\* Pattern.get_cell(*coords).  With coordinates the lookup names
\* `center_coords`, which is neither a local nor a global of the module
\* (the attribute is self.center_coords): NameError.
Pattern_get_cell(self, coords) ==
    IF coords # << >>
    THEN [self |-> self, ret |-> None, exc |-> "NameError"]
    ELSE [self |-> self, ret |-> self.cell_array.at[self.center_coords], exc |-> ""]

\* the patterns explored: every cell array of the shapes (3,) and (2, 2) over
\* CellVals, centered on any of its cells
Patterns ==
    UNION {{Pattern([shape |-> shape, at |-> f], c) :
                f \in [Indices(shape) -> CellVals], c \in Indices(shape)} :
              shape \in {<<3>>, <<2, 2>>}}

PatternInit ==
    /\ grid = None
    /\ ret = Ret("new", None, None, None, None, None)
    /\ written = [only_sets |-> TRUE, last |-> << >>]
    /\ nwrites = 0
    /\ lifecycle = [stage |-> 0, c |-> None, v |-> 0]
    /\ regions = << >>
    /\ pattern \in Patterns
    /\ lua = None

\* try: pattern.get_cell(*coords) / except Exception, for no coordinates or
\* d coordinates that lead from the center to a cell of the array.  g: the
\* coordinates; v: the value returned; res: the name of the exception, ""
\* for none
PatternGetCell ==
    /\ Ready
    /\ \E coords \in {<< >>} \cup {VSub(idx, pattern.center_coords) :
                                      idx \in Indices(pattern.cell_array.shape)} :
         LET r == Pattern_get_cell(pattern, coords)
         IN  /\ pattern' = r.self
             /\ ret' = Ret("Pattern.get_cell", coords, None, r.ret, None, r.exc)
    /\ UNCHANGED <<grid, written, nwrites, lifecycle, regions, lua>>

SpecPattern == PatternInit /\ [][PatternGetCell]_vars

-----------------------------------------------------------------------------
(* lua/sandbox.py: the module's name lists and class LuaSandbox, and their *)
(* state machine: sandboxes are constructed one after another in one       *)
(* process, then code is evaluated in one of them.  A Lua name is the      *)
(* sequence of its keys, name.split('.').                                  *)

\* LUA_SAFE_NAMES as the module defines it at import
LUA_SAFE_NAMES ==
    <<<<"assert">>, <<"error">>, <<"ipairs">>, <<"next">>, <<"pairs">>,
      <<"pcall">>, <<"print">>, <<"rawequal">>, <<"select">>, <<"tonumber">>,
      <<"tostring">>, <<"type">>, <<"unpack">>, <<"_VERSION">>, <<"xpcall">>,
      <<"string", "byte">>, <<"string", "char">>, <<"string", "find">>,
      <<"string", "format">>, <<"string", "gmatch">>, <<"string", "gsub">>,
      <<"string", "len">>, <<"string", "lower">>, <<"string", "match">>,
      <<"string", "rep">>, <<"string", "reverse">>, <<"string", "sub">>,
      <<"string", "upper">>, <<"table", "concat">>, <<"table", "insert">>,
      <<"table", "maxn">>, <<"table", "remove">>, <<"table", "sort">>,
      <<"math", "abs">>, <<"math", "acos">>, <<"math", "atan">>,
      <<"math", "atan2">>, <<"math", "ceil">>, <<"math", "cos">>,
      <<"math", "cosh">>, <<"math", "deg">>, <<"math", "exp">>,
      <<"math", "floor">>, <<"math", "fmod">>, <<"math", "floor">>,
      <<"math", "fmod">>, <<"math", "frexp">>, <<"math", "huge">>,
      <<"math", "ldexp">>, <<"math", "log">>, <<"math", "log10">>,
      <<"math", "max">>, <<"math", "min">>, <<"math", "modf">>,
      <<"math", "pi">>, <<"math", "pow">>, <<"math", "rad">>,
      <<"math", "sin">>, <<"math", "sinh">>, <<"math", "sqrt">>,
      <<"math", "tan">>, <<"math", "tanh">>>>

LUA_RANDOM_NAMES == <<(<<"math", "random">>)>>

LUA_TIME_NAMES ==
    <<(<<"os", "clock">>), <<"os", "date">>, <<"os", "difftime">>, <<"os", "time">>>>

\* LuaSandbox.__init__ in the module state `module`.  allowed_names is the
\* list object LUA_SAFE_NAMES itself, and `allowed_names += ...` extends that
\* list in place: the module's LUA_SAFE_NAMES keeps the names added.
\* safe_globals: the names entered into new_globals.
LuaSandbox(module, allow_random, allow_time) ==
    LET allowed_names ==
            module.LUA_SAFE_NAMES
            \o (IF allow_random THEN LUA_RANDOM_NAMES ELSE << >>)
            \o (IF allow_time THEN LUA_TIME_NAMES ELSE << >>)
        self == [allow_random |-> allow_random,
                 allow_time |-> allow_time,
                 safe_globals |-> {allowed_names[i] : i \in 1..Len(allowed_names)}]
    IN  [module |-> [LUA_SAFE_NAMES |-> allowed_names,
                     sandboxes |-> Append(module.sandboxes, self)],
         ret |-> self]

\* LuaSandbox.eval(name) for a global name or a name table.key: the code
\* runs with safe_globals as its environment.  "value": the Lua value of the
\* name or the table of the names under it; "nil"; "LuaError" for a key of
\* something that is not a table.
LuaSandbox_eval(self, name) ==
    LET is_table(k) == \E n \in self.safe_globals : Len(n) = 2 /\ n[1] = k
    IN  IF Len(name) = 1
        THEN IF name \in self.safe_globals \/ is_table(name[1])
             THEN "value" ELSE "nil"
        ELSE IF ~is_table(name[1]) THEN "LuaError"
        ELSE IF name \in self.safe_globals THEN "value" ELSE "nil"

MaxSandboxes == 3

LuaInit ==
    /\ grid = None
    /\ ret = Ret("new", None, None, None, None, None)
    /\ written = [only_sets |-> TRUE, last |-> << >>]
    /\ nwrites = 0
    /\ lifecycle = [stage |-> 0, c |-> None, v |-> 0]
    /\ regions = << >>
    /\ pattern = None
    /\ lua = [LUA_SAFE_NAMES |-> LUA_SAFE_NAMES, sandboxes |-> << >>]

\* LuaSandbox(allow_random=..., allow_time=...)
NewLuaSandbox ==
    /\ Ready
    /\ Len(lua.sandboxes) < MaxSandboxes
    /\ \E allow_random \in BOOLEAN, allow_time \in BOOLEAN :
         lua' = LuaSandbox(lua, allow_random, allow_time).module
    /\ UNCHANGED <<grid, ret, written, nwrites, lifecycle, regions, pattern>>

\* try: sandbox.eval(name) / except LuaError, in any of the sandboxes, for
\* names of every list and names of none.  g: the name; k: the number of the
\* sandbox; res: what came of it
LuaEval ==
    /\ Ready
    /\ \E k \in 1..Len(lua.sandboxes) :
       \E name \in {LUA_RANDOM_NAMES[i] : i \in 1..Len(LUA_RANDOM_NAMES)}
                   \cup {LUA_TIME_NAMES[i] : i \in 1..Len(LUA_TIME_NAMES)}
                   \cup {<<"tonumber">>, <<"string", "format">>, <<"math">>,
                         <<"os">>, <<"io">>, <<"os", "execute">>,
                         <<"not_a_real_global">>} :
         ret' = Ret("LuaSandbox.eval", name, k, None, None,
                    LuaSandbox_eval(lua.sandboxes[k], name))
    /\ UNCHANGED <<grid, written, nwrites, lifecycle, regions, pattern, lua>>

LuaNext ==
    \/ NewLuaSandbox
    \/ LuaEval

SpecLua == LuaInit /\ [][LuaNext]_vars

-----------------------------------------------------------------------------
(* The Region state machine: the caller holds one or two regions and makes *)
(* one call on them.                                                       *)

\* op: the call; before: the regions held as they were before it; arg: its
\* other argument (mask, offset or axes); res: what it returned
RegionRet(op, before, arg, res) ==
    [op |-> op, before |-> before, arg |-> arg, res |-> res]

RegionInit ==
    /\ grid = None
    /\ pattern = None
    /\ lua = None
    /\ written = [only_sets |-> TRUE, last |-> << >>]
    /\ nwrites = 0
    /\ lifecycle = [stage |-> 0, c |-> None, v |-> 0]
    /\ regions \in {<<r>> : r \in Regions} \cup (Regions \X Regions)
    /\ ret = RegionRet("new", << >>, None, None)

RegionReady == ret.op = "new"

SameDimensions ==
    /\ Len(regions) = 2
    /\ region_dimensions(regions[1]) = region_dimensions(regions[2])

\* regions[1] op regions[2] for op in & | ^
BooleanOp(op) ==
    /\ RegionReady
    /\ Len(regions) = 2
    /\ ret' = RegionRet(op, regions, None, boolean_op(regions[1], op, regions[2]))
    /\ UNCHANGED <<grid, written, nwrites, lifecycle, regions, pattern, lua>>

And == BooleanOp("&")

Or == BooleanOp("|")

Xor == BooleanOp("^")

\* r1 ^ r1 & r2
Subtract ==
    /\ RegionReady
    /\ SameDimensions
    /\ ret' = RegionRet("^&", regions, None,
                        boolean_op(regions[1], "^",
                                   boolean_op(regions[1], "&", regions[2])))
    /\ UNCHANGED <<grid, written, nwrites, lifecycle, regions, pattern, lua>>

\* regions[1] in regions[2]
\* r1.intersects(r2), as test_region_operators calls it
Intersects ==
    /\ RegionReady
    /\ SameDimensions
    /\ ret' = RegionRet("intersects", regions, None,
                        intersects(regions[1], regions[2]))
    /\ UNCHANGED <<grid, written, nwrites, lifecycle, regions, pattern, lua>>

Contains ==
    /\ RegionReady
    /\ Len(regions) = 2
    /\ ret' = RegionRet("in", regions, None,
                        IF contains_raises(regions[2], regions[1])
                        THEN Raised("ValueError")
                        ELSE contains_region(regions[2], regions[1]))
    /\ UNCHANGED <<grid, written, nwrites, lifecycle, regions, pattern, lua>>

\* regions[1] == regions[2]
Eq ==
    /\ RegionReady
    /\ Len(regions) = 2
    /\ ret' = RegionRet("==", regions, None,
                        IF eq_raises(regions[1], regions[2])
                        THEN Raised("ValueError")
                        ELSE region_eq(regions[1], regions[2]))
    /\ UNCHANGED <<grid, written, nwrites, lifecycle, regions, pattern, lua>>

\* region != region.box
NeBox ==
    /\ RegionReady
    /\ Len(regions) = 1
    /\ ret' = RegionRet("!=box", regions, None,
                        region_ne(regions[1], box(regions[1])))
    /\ UNCHANGED <<grid, written, nwrites, lifecycle, regions, pattern, lua>>

\* region.box
Box ==
    /\ RegionReady
    /\ Len(regions) = 1
    /\ ret' = RegionRet("box", regions, None, box(regions[1]))
    /\ UNCHANGED <<grid, written, nwrites, lifecycle, regions, pattern, lua>>

\* Region.span(region, mask) with a mask of the region's shape
SpanRegion ==
    /\ RegionReady
    /\ Len(regions) = 1
    /\ \E m \in Masks(region_shape(regions[1])) :
         LET r == span_region(regions[1], m)
         IN  /\ regions' = <<r.arg>>
             /\ ret' = RegionRet("span", regions, m, r.ret)
    /\ UNCHANGED <<grid, written, nwrites, lifecycle, pattern, lua>>

\* Region.span(bounds, mask) with the two corners of the region's box and a
\* mask of its shape
SpanBounds ==
    /\ RegionReady
    /\ Len(regions) = 1
    /\ ~region_is_empty(regions[1])
    /\ \E m \in Masks(region_shape(regions[1])) :
         ret' = RegionRet("span_bounds", regions, m,
                          span_bounds(<<regions[1].bounds[2], regions[1].bounds[1]>>, m))
    /\ UNCHANGED <<grid, written, nwrites, lifecycle, regions, pattern, lua>>

\* Region.span(coords, mask) with the lower corner of the region and a mask
\* of its shape
SpanCoords ==
    /\ RegionReady
    /\ Len(regions) = 1
    /\ ~region_is_empty(regions[1])
    /\ \E m \in Masks(region_shape(regions[1])) :
         ret' = RegionRet("span_coords", regions, m,
                          span_coords(regions[1].bounds[1], m))
    /\ UNCHANGED <<grid, written, nwrites, lifecycle, regions, pattern, lua>>

\* Region.span(point), no mask
SpanPoint ==
    /\ RegionReady
    /\ Len(regions) = 1
    /\ \E p \in Positions(region_dimensions(regions[1])) :
         ret' = RegionRet("span_point", regions, p, span_coords(p, NoMask))
    /\ UNCHANGED <<grid, written, nwrites, lifecycle, regions, pattern, lua>>

\* region + v
Add ==
    /\ RegionReady
    /\ Len(regions) = 1
    /\ \E d \in RegionDims : \E v \in Offsets(d) :
         ret' = RegionRet("+", regions, v, region_add(regions[1], v))
    /\ UNCHANGED <<grid, written, nwrites, lifecycle, regions, pattern, lua>>

\* region - v
Sub ==
    /\ RegionReady
    /\ Len(regions) = 1
    /\ \E d \in RegionDims : \E v \in Offsets(d) :
         ret' = RegionRet("-", regions, v, region_sub(regions[1], v))
    /\ UNCHANGED <<grid, written, nwrites, lifecycle, regions, pattern, lua>>

\* list(region)
RegionIter ==
    /\ RegionReady
    /\ Len(regions) = 1
    /\ ret' = RegionRet("iter", regions, None, region_iter(regions[1]))
    /\ UNCHANGED <<grid, written, nwrites, lifecycle, regions, pattern, lua>>

\* p in region, for a position p of any length
ContainsPosition ==
    /\ RegionReady
    /\ Len(regions) = 1
    /\ \E d \in RegionDims : \E p \in Positions(d) :
         ret' = RegionRet("p in", regions, p,
                          IF ~to_coords_ok(p, region_dimensions(regions[1]))
                          THEN Raised("ValueError")
                          ELSE contains_position(regions[1], p))
    /\ UNCHANGED <<grid, written, nwrites, lifecycle, regions, pattern, lua>>

\* region.invert(axes)
Invert ==
    /\ RegionReady
    /\ Len(regions) = 1
    /\ \E axes \in AxesArgs(region_dimensions(regions[1])) :
         ret' = RegionRet("invert", regions, axes, invert(regions[1], axes))
    /\ UNCHANGED <<grid, written, nwrites, lifecycle, regions, pattern, lua>>

RegionNext ==
    \/ And
    \/ Or
    \/ Xor
    \/ Subtract
    \/ Contains
    \/ Intersects
    \/ Eq
    \/ NeBox
    \/ Box
    \/ SpanRegion
    \/ SpanBounds
    \/ SpanCoords
    \/ SpanPoint
    \/ Add
    \/ Sub
    \/ Invert
    \/ ContainsPosition
    \/ RegionIter

SpecRegion == RegionInit /\ [][RegionNext]_vars

-----------------------------------------------------------------------------
(* Properties of the Grid.                                                 *)

ChunkOf(g) == get_coords_pair(grid, g).chunk

\* C1: on a new grid, after any sequence of set_cell calls, get_cell(c)
\* returns the value of the most recent set_cell(c, v), for every coordinate
\* written (negative or not): a later set_cell of another cell, in the same
\* chunk or in another one, leaves it unchanged, and a later set_cell of the
\* same cell wins.  After any set_cell(g, v), get_cell(g) = v.
C1_LastWriteWins ==
    /\ written.only_sets =>
          \A c \in DOMAIN written.last : get_cell(grid, c).ret = written.last[c]
    /\ ret.op = "set_cell" => get_cell(grid, ret.g).ret = ret.v

\* Two cells of one chunk hold different non-zero values, the second one
\* written last; and a cell with a negative coordinate holds its value.
C1_Witness ==
    /\ written.only_sets
    /\ ret.op = "set_cell"
    /\ \E c1 \in DOMAIN written.last :
          /\ c1 # ret.g
          /\ ChunkOf(c1) = ChunkOf(ret.g)
          /\ written.last[c1] \notin {0, ret.v}
          /\ ret.v # 0
          /\ get_cell(grid, c1).ret = written.last[c1]

\* C3: on a new grid, after set_cell(c, v) the chunk of c is stored, for
\* every v; after a following del_chunk_if_empty on it, it is stored iff
\* v # 0; is_chunk_empty on it and is_empty() equal (v = 0) before and after
\* that call; after a further set_cell(c, 0) and del_chunk_if_empty it is not
\* stored.
C3_ChunkLifecycle ==
    LET k == ChunkOf(lifecycle.c)
        zero == (lifecycle.v = 0)
    IN  /\ lifecycle.stage = 1 =>
              /\ has_chunk(grid, k)
              /\ is_chunk_empty(grid, k).ret = zero
              /\ is_empty(grid).ret = zero
        /\ lifecycle.stage = 2 =>
              /\ has_chunk(grid, k) = ~zero
              /\ is_chunk_empty(grid, k).ret = zero
              /\ is_empty(grid).ret = zero
        /\ lifecycle.stage = 4 => ~has_chunk(grid, k)

\* The whole scenario has run for a non-zero value: the chunk survived the
\* first del_chunk_if_empty and was removed by the second.
C3_Witness ==
    /\ lifecycle.stage = 4
    /\ lifecycle.v # 0
    /\ ret.op = "del_chunk_if_empty"
    /\ ~has_chunk(grid, ChunkOf(lifecycle.c))

\* C2: get_cell_napkin(g, N) with N = [lo, hi] returns an array of shape
\* hi - lo + 1 whose entry at index i is get_cell(g + lo + i), for negative
\* coordinates and for windows reaching into other chunks, stored or not.
\* In 2-D, with (0,0) = 5 and (1,0) = 7 and N = [[-1,1],[-1,1]], the napkin at
\* (0,0) is 3x3 with 5 at [1,1], 7 at [2,1] and 0 elsewhere.
C2_Scenario ==
    LET g1 == set_cell(Grid(2), <<0, 0>>, 5).self
        g2 == set_cell(g1, <<1, 0>>, 7).self
        N == Neighborhood(<<(<<-1, -1>>), <<1, 1>>>>)
        A == get_cell_napkin(g2, <<0, 0>>, N).ret
    IN  /\ A.shape = <<3, 3>>
        /\ DOMAIN A.at = Indices(<<3, 3>>)
        /\ \A idx \in Indices(<<3, 3>>) :
              A.at[idx] = IF idx = <<1, 1>> THEN 5
                          ELSE IF idx = <<2, 1>> THEN 7 ELSE 0

C2_CellNapkinIsWindow ==
    /\ ret.op = "get_cell_napkin" =>
          LET N == ret.n
              A == ret.res
          IN  /\ A.shape = [i \in 1..grid.dimensions |->
                               N.upper_bounds[i] - N.lower_bounds[i] + 1]
              /\ DOMAIN A.at = Indices(A.shape)
              /\ \A idx \in Indices(A.shape) :
                    A.at[idx] =
                        get_cell(grid, VAdd(VAdd(ret.g, N.lower_bounds), idx)).ret
    /\ C2_Scenario

\* A napkin around a cell with a negative coordinate, whose window holds a
\* non-zero cell of another chunk than the cell's and a cell of a chunk that
\* is not stored.
C2_Witness ==
    /\ ret.op = "get_cell_napkin"
    /\ \E i \in 1..grid.dimensions : ret.g[i] < 0
    /\ \E idx \in Indices(ret.res.shape) :
          /\ ret.res.at[idx] # 0
          /\ ChunkOf(VAdd(VAdd(ret.g, ret.n.lower_bounds), idx)) # ChunkOf(ret.g)
    /\ \E idx \in Indices(ret.res.shape) :
          ~has_chunk(grid, ChunkOf(VAdd(VAdd(ret.g, ret.n.lower_bounds), idx)))

\* C4: no read changes the grid: get_cell, get_chunk (stored key, absent key
\* or None), has_chunk, is_chunk_empty, is_empty, iteration,
\* get_chunk_neighborhood, get_chunk_napkin and get_cell_napkin leave the set
\* of stored chunk keys and every stored cell value as they were.
C4_ReadsLeaveGridUnchanged ==
    [][ret'.op \notin MutatorOps => grid' = grid]_vars

\* A napkin has been taken whose window reaches into a chunk that is not
\* stored, on a grid that stores some chunk.
C4_Witness ==
    /\ ret.op = "get_cell_napkin"
    /\ DOMAIN grid.chunks # {}
    /\ \E idx \in Indices(ret.res.shape) :
          /\ ~has_chunk(grid, ChunkOf(VAdd(VAdd(ret.g, ret.n.lower_bounds), idx)))
          /\ ret.res.at[idx] = 0

\* C5: for every chunk size S and every axis, get_chunk_neighborhood maps the
\* cell bounds [lo, hi] to the chunk bounds [floor(lo/S), floor((hi-1)/S)+1];
\* these cover floor((l+o)/S) for every l in [0, S-1] and o in [lo, hi], and
\* both ends are reached by some such l and o.  With S = 16, the upper cell
\* bound 17 gives 2, 16 gives 1 and 0 gives 0.
C5_ChunkNeighborhoodCoversMinimally ==
    ret.op = "get_chunk_neighborhood" =>
        \A i \in 1..grid.dimensions :
            LET S == grid.chunk_size
                lo == ret.n.lower_bounds[i]
                hi == ret.n.upper_bounds[i]
                cl == ret.res.lower_bounds[i]
                cu == ret.res.upper_bounds[i]
                reached == {FloorDiv(l + o, S) : l \in 0..(S - 1), o \in lo..hi}
            IN  /\ cl = FloorDiv(lo, S)
                /\ cu = FloorDiv(hi - 1, S) + 1
                /\ reached \subseteq cl..cu
                /\ cl \in reached
                /\ cu \in reached
                /\ S = 16 => /\ hi = 17 => cu = 2
                             /\ hi = 16 => cu = 1
                             /\ hi = 0 => cu = 0

\* chunk size 16, a negative lower bound and the upper bound 0, a multiple of
\* the chunk size: the chunk bounds are [-1, 0]
C5_Witness ==
    /\ ret.op = "get_chunk_neighborhood"
    /\ grid.chunk_size = 16
    /\ ret.n.lower_bounds[1] = -1
    /\ ret.n.upper_bounds[1] = 0
    /\ ret.res.lower_bounds[1] = -1
    /\ ret.res.upper_bounds[1] = 0

-----------------------------------------------------------------------------
(* Properties of the regions.                                              *)

\* the cells of a region among the positions asked about
Cells(r) == {p \in Positions(region_dimensions(r)) : contains_position(r, p)}

IsRegion(r) == r.kind \in {"EmptyRegion", "RectRegion", "MaskedRegion"}

\* C6: for regions r1, r2 of equal dimension (each Empty, Rect or Masked,
\* with overlapping or disjoint boxes) and every position p: p in (r1 | r2)
\* iff p in r1 or p in r2; p in (r1 & r2) iff p in r1 and p in r2;
\* p in (r1 ^ r2) iff exactly one of p in r1, p in r2; p in (r1 ^ (r1 & r2))
\* iff p in r1 and p not in r2.
C6_RegionAlgebra ==
    (SameDimensions /\ ret.op \in {"&", "|", "^", "^&"}) =>
        /\ IsRegion(ret.res)
        /\ \A p \in Positions(region_dimensions(regions[1])) :
              LET in1 == contains_position(regions[1], p)
                  in2 == contains_position(regions[2], p)
                  inres == contains_position(ret.res, p)
              IN  /\ ret.op = "|" => (inres <=> (in1 \/ in2))
                  /\ ret.op = "&" => (inres <=> (in1 /\ in2))
                  /\ ret.op = "^" => (inres <=> (in1 # in2))
                  /\ ret.op = "^&" => (inres <=> (in1 /\ ~in2))

\* the symmetric difference of two masked regions whose boxes differ and
\* which share a cell has been taken
C6_Witness ==
    /\ SameDimensions
    /\ ret.op = "^"
    /\ regions[1].kind = "MaskedRegion"
    /\ regions[2].kind = "MaskedRegion"
    /\ regions[1].bounds # regions[2].bounds
    /\ Cells(regions[1]) \cap Cells(regions[2]) # {}
    /\ ret.res.kind = "MaskedRegion"

\* C7: for regions A, B of equal dimension, A in B iff every cell of A is a
\* cell of B (an Empty A is in every B, a non-empty A is in no Empty B).
\* Hence (r1 & r2) is in r1 and in r2; r1 and r2 are in (r1 | r2);
\* (r1 ^ (r1 & r2)) is in r1; r1 == r1 & r2 iff r1 in r2; r1 == r1 | r2 iff
\* r2 in r1.
C7_RegionContainment ==
    SameDimensions =>
        LET r1 == regions[1]
            r2 == regions[2]
        IN  /\ ret.op = "in" =>
                  /\ ret.res = (Cells(r1) \subseteq Cells(r2))
                  /\ region_is_empty(r1) => ret.res
                  /\ (~region_is_empty(r1) /\ region_is_empty(r2)) => ~ret.res
            /\ ret.op = "&" =>
                  /\ contains_region(r1, ret.res)
                  /\ contains_region(r2, ret.res)
                  /\ region_eq(r1, ret.res) = contains_region(r2, r1)
            /\ ret.op = "|" =>
                  /\ contains_region(ret.res, r1)
                  /\ contains_region(ret.res, r2)
                  /\ region_eq(r1, ret.res) = contains_region(r1, r2)
            /\ ret.op = "^&" => contains_region(r1, ret.res)

\* a masked region has been found to lie in another masked region whose box
\* is larger
C7_Witness ==
    /\ SameDimensions
    /\ ret.op = "in"
    /\ ret.res
    /\ regions[1].kind = "MaskedRegion"
    /\ regions[2].kind = "MaskedRegion"
    /\ regions[1].bounds # regions[2].bounds

\* C8: two regions compare equal iff they have the same dimension count and
\* contain exactly the same set of cells: Empty regions of different
\* dimension counts are not equal, a non-empty region never equals an Empty
\* one, and region != region.box iff the region is a Masked region.
C8_RegionEquality ==
    /\ ret.op = "==" =>
          ret.res = (/\ region_dimensions(regions[1]) = region_dimensions(regions[2])
                     /\ Cells(regions[1]) = Cells(regions[2]))
    /\ ret.op = "!=box" => (ret.res <=> regions[1].kind = "MaskedRegion")

\* C9: regions are immutable: after Region.span(r, mask), r + v, r - v,
\* r.invert(axes), r.box, r & s, r | s or r ^ s, every region passed in has
\* the bounds, the mask and the cells it had before the call, also where the
\* mask given to Region.span has all-false boundary slices.
C9_RegionsImmutable ==
    ret.op \in {"span", "+", "-", "invert", "box", "&", "|", "^"} =>
        \A i \in 1..Len(regions) :
            /\ regions[i].kind = ret.before[i].kind
            /\ regions[i].bounds = ret.before[i].bounds
            /\ regions[i].mask.shape = ret.before[i].mask.shape
            /\ regions[i].mask.at = ret.before[i].mask.at
            /\ Cells(regions[i]) = Cells(ret.before[i])

\* the box the mask of a span call is laid over
SpanBox ==
    IF ret.op = "span_coords"
    THEN <<ret.before[1].bounds[1],
           [i \in 1..Len(ret.arg.shape) |->
               ret.before[1].bounds[1][i] + ret.arg.shape[i] - 1]>>
    ELSE ret.before[1].bounds

\* C10: every region returned by Region.span(bounds, mask) is canonical: an
\* all-false mask gives the Empty variant; otherwise on every axis the first
\* and the last slice of the result's mask hold a true entry; an all-true
\* shrunk mask gives the Rect variant; a Masked region's mask is neither
\* all-true nor all-false and has the shape of its box.  The result has as
\* many cells as the mask has true entries and lies in the unmasked box.
C10_SpanCanonical ==
    (/\ ret.op \in {"span", "span_bounds", "span_coords"}
     /\ ~region_is_empty(ret.before[1])) =>
        LET R == ret.res
            m == ret.arg
        IN  /\ IsRegion(R)
            /\ region_is_empty(R) <=> ~ArrayAny(m)
            /\ ~region_is_empty(R) =>
                  \A axis \in 0..(region_dimensions(R) - 1) :
                      /\ RowAny(moveaxis(region_mask(R), axis, 0), 0)
                      /\ RowAny(moveaxis(region_mask(R), axis, 0), -1)
            /\ R.kind = "RectRegion" => mask_is_None(R.mask)
            /\ R.kind = "MaskedRegion" =>
                  /\ ~ArrayAll(R.mask)
                  /\ ArrayAny(R.mask)
                  /\ R.mask.shape = region_shape(R)
                  /\ R.count = count_nonzero(R.mask)
            /\ region_count(R) = count_nonzero(m)
            /\ Cardinality(Cells(R)) = count_nonzero(m)
            /\ contains_region(RectRegion(SpanBox), R)
            /\ \A p \in Cells(R) : RectRegion_contains_position(RectRegion(SpanBox), p)

\* a mask whose first and last slices are all-false, with a false entry
\* between true ones, has been shrunk at both ends to a masked region
C10_Witness ==
    /\ ret.op = "span"
    /\ ret.before[1].kind = "RectRegion"
    /\ ~RowAny(ret.arg, 0)
    /\ ~RowAny(ret.arg, -1)
    /\ ret.res.kind = "MaskedRegion"
    /\ ret.res.bounds[1][1] > ret.before[1].bounds[1][1]
    /\ ret.res.bounds[2][1] < ret.before[1].bounds[2][1]

\* C11: for every region r and every axes argument A (None, the empty tuple
\* or a tuple of axes; the first two meaning all axes): r.invert(A) is a
\* region with as many cells as r; for every p in r, p with its components on
\* the axes of A negated is in r.invert(A); r.invert(A).invert(A) == r; and
\* r.invert(()) == r.invert().
C11_InvertInvolution ==
    ret.op = "invert" =>
        LET r == ret.before[1]
            A == ret.arg
            inverted == ret.res
            all == A.none \/ A.axes = {}
            negated(p) == [i \in 1..Len(p) |->
                              IF all \/ (i - 1) \in A.axes THEN 0 - p[i] ELSE p[i]]
        IN  /\ IsRegion(inverted)
            /\ region_dimensions(inverted) = region_dimensions(r)
            /\ region_count(inverted) = region_count(r)
            /\ \A p \in Cells(r) : contains_position(inverted, negated(p))
            /\ Cardinality(Cells(inverted)) = Cardinality(Cells(r))
            /\ ~eq_raises(invert(inverted, A), r)
            /\ region_eq(invert(inverted, A), r)
            /\ all => /\ ~eq_raises(invert(r, AxesNone), inverted)
                      /\ region_eq(invert(r, AxesNone), inverted)

\* a masked region has been inverted with the empty tuple, and its mask is
\* not the mask of the result
C11_Witness ==
    /\ ret.op = "invert"
    /\ ret.before[1].kind = "MaskedRegion"
    /\ ret.arg = [none |-> FALSE, axes |-> {}]
    /\ ret.res.kind = "MaskedRegion"
    /\ ret.res.mask.at # ret.before[1].mask.at
    /\ region_dimensions(ret.res) = 2

\* C12: binary region operations between operands of differing dimension
\* count raise an error, whichever variants the operands are: r1 & r2,
\* r1 | r2, r1 ^ r2, the containment test r1 in r2, the position test p in r
\* with p of length # r.dimensions, and r + v, r - v with v of length
\* # r.dimensions.
C12_DimensionMismatchRaises ==
    /\ (/\ ret.op \in {"&", "|", "^", "in"}
        /\ region_dimensions(regions[1]) # region_dimensions(regions[2])) =>
           IF ret.op = "in"
           THEN contains_raises(regions[2], regions[1])
           ELSE ret.res.kind \in Exceptions
    /\ (/\ ret.op \in {"p in", "+", "-"}
        /\ Len(ret.arg) # region_dimensions(regions[1])) =>
           ret.res.kind \in Exceptions

\* C13: get_cell, set_cell and get_cell_napkin called with a coordinate
\* vector whose length is not the grid's dimension count raise at entry: no
\* value is returned, no cell is written and no chunk is created.
C13_WrongLengthRaises ==
    [][(/\ ret'.op \in {"try set_cell", "try get_cell", "try get_cell_napkin"}
        /\ Len(ret'.g) # grid.dimensions) =>
           (/\ ret'.res # ""
            /\ grid' = grid)]_<<grid, ret.op>>

\* C14: a set_cell that fails, for its coordinates or for a value the chunk
\* cannot store, leaves the chunk map as it was before the call.
C14_FailedSetCellKeepsChunks ==
    [][(ret'.op = "try set_cell" /\ ret'.res # "") =>
           grid'.chunks = grid.chunks]_<<grid, ret.op>>

\* C15: in every reachable grid state, is_chunk_empty(k) is true iff chunk k
\* is not stored or all its cells are zero; is_empty() is true iff every
\* stored chunk is all-zero, iff get_cell(g) = 0 for every coordinate g
\* (the coordinates explored and every cell a stored chunk holds a value at).
C15_Emptiness ==
    LET stored == DOMAIN grid.chunks
        cells == CellCoords(grid) \cup
                 UNION {{[i \in 1..grid.dimensions |->
                            k[i] * grid.chunk_shape[i] + idx[i]] :
                                idx \in DOMAIN grid.chunks[k]} : k \in stored}
        AllZero(k) == \A g \in cells :
                         ChunkOf(g) = k => get_cell(grid, g).ret = 0
        chunk_empty(k) == k \notin stored \/ AllZero(k)
    IN  /\ \A k \in ChunkCoords(grid) \cup stored :
              is_chunk_empty(grid, k).ret <=> chunk_empty(k)
        /\ is_empty(grid).ret <=> \A k \in stored : AllZero(k)
        /\ is_empty(grid).ret <=> \A g \in cells : get_cell(grid, g).ret = 0
        /\ ret.op = "is_chunk_empty" => (ret.res <=> chunk_empty(ret.k))
        /\ ret.op = "is_empty" => (ret.res <=> \A k \in stored : AllZero(k))

\* is_empty() has answered True on a grid that stores an all-zero chunk
C15_Witness ==
    /\ ret.op = "is_empty"
    /\ ret.res
    /\ DOMAIN grid.chunks # {}

\* C16: along any sequence of Grid operations, a chunk key enters the chunk
\* map only in a set_cell step (the chunk of the written cell) or a set_chunk
\* step, and leaves it only in a del_chunk step or in a del_chunk_if_empty
\* step on a chunk whose cells are all zero; after set_cell(g, v), v = 0
\* included, the chunk of g is stored.  Every step that changes the grid or
\* writes a cell is examined.
C16_ChunkKeysEnterAndLeave ==
    [][LET before == DOMAIN grid.chunks
           after == DOMAIN grid'.chunks
       IN  /\ \A k \in after \ before :
                 \/ ret'.op = "set_cell" /\ k = get_coords_pair(grid, ret'.g).chunk
                 \/ ret'.op = "set_chunk" /\ k = ret'.k
           /\ \A k \in before \ after :
                 \/ ret'.op = "del_chunk" /\ k = ret'.k
                 \/ /\ ret'.op = "del_chunk_if_empty"
                    /\ k = ret'.k
                    /\ \A idx \in DOMAIN grid.chunks[k] : grid.chunks[k][idx] = 0
           /\ ret'.op = "set_cell" =>
                 get_coords_pair(grid, ret'.g).chunk \in after]_<<grid, nwrites>>

\* set_cell(g, 0) has zeroed the only nonzero cell of a chunk, and the chunk
\* is still stored
C16_Witness ==
    /\ ret.op = "set_cell"
    /\ ret.v = 0
    /\ nwrites = 2
    /\ has_chunk(grid, ChunkOf(ret.g))
    /\ is_empty(grid).ret
    /\ written.only_sets

\* C17: for a region r and a coordinate vector v of r's dimension count,
\* r + v and r - v have the cell count and the emptiness of r; p in r implies
\* p + v in r + v and p - v in r - v; the mask of a masked region is kept;
\* r + v == r - v == r when v is all zero or r is empty, and the three are
\* pairwise unequal otherwise.
C17_Translation ==
    (/\ ret.op \in {"+", "-"}
     /\ Len(ret.arg) = region_dimensions(ret.before[1])) =>
        LET translated(r, v, added, subtracted) ==
            /\ ret.res = (IF ret.op = "+" THEN added ELSE subtracted)
            /\ \A s \in {added, subtracted} :
                  /\ IsRegion(s)
                  /\ region_count(s) = region_count(r)
                  /\ region_is_empty(s) = region_is_empty(r)
                  /\ r.kind = "MaskedRegion" =>
                        s.kind = "MaskedRegion" /\ s.mask = r.mask
            /\ \A p \in Cells(r) :
                  /\ contains_position(added, VAdd(p, v))
                  /\ contains_position(subtracted, VSub(p, v))
            /\ IF (\E i \in 1..Len(v) : v[i] # 0) /\ ~region_is_empty(r)
               THEN /\ region_ne(added, subtracted)
                    /\ region_ne(subtracted, r)
                    /\ region_ne(added, r)
               ELSE /\ region_eq(added, subtracted)
                    /\ region_eq(subtracted, r)
                    /\ region_eq(added, r)
        IN  translated(ret.before[1], ret.arg,
                       region_add(ret.before[1], ret.arg),
                       region_sub(ret.before[1], ret.arg))

\* a masked region has been shifted by a nonzero vector
C17_Witness ==
    /\ ret.op = "+"
    /\ ret.before[1].kind = "MaskedRegion"
    /\ ret.arg = <<2, 1>>
    /\ ret.res.kind = "MaskedRegion"
    /\ ret.res.mask = ret.before[1].mask
    /\ ret.res.bounds[1] = VAdd(ret.before[1].bounds[1], ret.arg)

\* C18: list(region) holds each cell of the region exactly once, in
\* row-major order (first axis slowest), the cells the mask excludes
\* skipped; len(region) is its length; every position of it is in the
\* region; region.positions is the same list; region.position_grid
\* flattened is list(region.box), whatever the mask; an empty region yields
\* nothing; a second iteration yields the same list.
C18_Iteration ==
    ret.op = "iter" =>
        LET d == region_dimensions(ret.before[1])
            before(a, b) == \E i \in 1..d :
                               /\ a[i] < b[i]
                               /\ \A j \in 1..(i - 1) : a[j] = b[j]
            flat(arr) == [n \in 1..Prod(SubSeq(arr.shape, 1, d)) |->
                            [i \in 1..d |->
                                arr.at[Unravel(n - 1, SubSeq(arr.shape, 1, d))
                                       \o <<i - 1>>]]]
            iterated(r, cells) ==
                /\ {cells[n] : n \in 1..Len(cells)} = Cells(r)
                /\ \A m, n \in 1..Len(cells) : m < n => before(cells[m], cells[n])
                /\ region_count(r) = Len(cells)
                /\ \A n \in 1..Len(cells) : contains_position(r, cells[n])
                /\ positions(r) = cells
                /\ flat(position_grid(r)) = region_iter(box(r))
                /\ region_is_empty(r) => cells = << >>
                /\ region_iter(r) = cells
        IN  iterated(ret.before[1], ret.res)

\* a masked 2-D region with a cell excluded inside its box has been iterated
C18_Witness ==
    /\ ret.op = "iter"
    /\ ret.before[1].kind = "MaskedRegion"
    /\ region_dimensions(ret.before[1]) = 2
    /\ Len(ret.res) >= 2
    /\ Len(ret.res) < Prod(region_shape(ret.before[1]))

\* C19: Region.span(point) is a region of one cell, the point, with both
\* bounds equal to the point.  Region.span(point, mask) lays the mask with
\* its lower corner at the point: it has as many cells as the mask has true
\* entries, its lower bounds are at least the point on every axis, and
\* Region.span of its own lower bounds and mask is equal to it.
C19_SpanFromCell ==
    /\ ret.op = "span_point" =>
          /\ ret.res.kind = "RectRegion"
          /\ region_count(ret.res) = 1
          /\ region_iter(ret.res) = <<ret.arg>>
          /\ contains_position(ret.res, ret.arg)
          /\ ret.res.bounds = <<ret.arg, ret.arg>>
    /\ ret.op = "span_coords" =>
          LET laid(R, point, mask) ==
                  /\ IsRegion(R)
                  /\ region_count(R) = count_nonzero(mask)
                  /\ Len(region_iter(R)) = count_nonzero(mask)
                  /\ ~region_is_empty(R) =>
                        /\ \A i \in 1..Len(point) : R.bounds[1][i] >= point[i]
                        /\ ~eq_raises(span_coords(R.bounds[1], region_mask(R)), R)
                        /\ region_eq(span_coords(R.bounds[1], region_mask(R)), R)
          IN  laid(ret.res, ret.before[1].bounds[1], ret.arg)

\* a mask with an all-false first slice has been laid at a point: the
\* masked region begins above the point
C19_Witness ==
    /\ ret.op = "span_coords"
    /\ ret.res.kind = "MaskedRegion"
    /\ ret.res.bounds[1] # ret.before[1].bounds[1]

\* C20: for regions r1, r2 of one dimension count, r1.intersects(r2) is true
\* iff some position is in both, iff r1 & r2 is not empty; it is false where
\* either is Empty, and for masked regions whose boxes overlap and whose
\* cells are disjoint.
C20_Intersects ==
    ret.op = "intersects" =>
        LET meet(r1, r2, both) ==
                /\ ret.res \in BOOLEAN
                /\ ret.res <=> (Cells(r1) \cap Cells(r2) # {})
                /\ ret.res <=> (\E n \in 1..Len(region_iter(r1)) :
                                    contains_position(r2, region_iter(r1)[n]))
                /\ ret.res <=> ~region_is_empty(both)
                /\ (region_is_empty(r1) \/ region_is_empty(r2)) => ~ret.res
        IN  meet(regions[1], regions[2], boolean_op(regions[1], "&", regions[2]))

\* two masked regions whose boxes overlap and whose cells are disjoint have
\* been found not to intersect
C20_Witness ==
    /\ ret.op = "intersects"
    /\ ~ret.res
    /\ regions[1].kind = "MaskedRegion"
    /\ regions[2].kind = "MaskedRegion"
    /\ intersects(box(regions[1]), box(regions[2]))

\* C21: Grid.copy() on a grid in any state returns a grid with the same
\* dimension count, the same stored chunk keys and the same get_cell value at
\* every coordinate, and a set_cell or del_chunk on the copy changes no cell
\* of the grid copied; Grid.empty_copy() returns a grid with the same
\* settings and no stored chunk.
C21_Copy ==
    /\ ret.op = "copy" =>
          /\ ret.res = ""
          /\ ret.v.dimensions = grid.dimensions
          /\ ret.v.chunk_size = grid.chunk_size
          /\ DOMAIN ret.v.chunks = DOMAIN grid.chunks
          /\ \A g \in CellCoords(grid) :
                /\ get_cell(ret.v, g).ret = get_cell(grid, g).ret
                /\ \A h \in CellCoords(grid) :
                      get_cell(set_cell(ret.v, h, MaxVal).self, g).ret
                          = (IF g = h THEN MaxVal ELSE get_cell(grid, g).ret)
    /\ ret.op = "empty_copy" =>
          /\ ret.res = ""
          /\ ret.v.dimensions = grid.dimensions
          /\ ret.v.chunk_size = grid.chunk_size
          /\ DOMAIN ret.v.chunks = {}

\* C22: Pattern.get_cell(*coords) with d coordinates returns the entry of
\* the cell array at center_coords + coords, and Pattern.get_cell() with no
\* coordinates returns the entry at center_coords.
C22_PatternGetCell ==
    ret.op = "Pattern.get_cell" =>
        /\ ret.res = ""
        /\ ret.v = pattern.cell_array.at[
                       IF ret.g = << >> THEN pattern.center_coords
                       ELSE VAdd(pattern.center_coords, ret.g)]

\* C23: a LuaSandbox constructed with allow_random=False gives its code no
\* access to math.random, and one constructed with allow_time=False none to
\* os.clock, os.date, os.difftime, os.time, whatever sandboxes were
\* constructed before it in the process; io and os.execute are accessible
\* in no sandbox.
C23_SandboxFlags ==
    ret.op = "LuaSandbox.eval" =>
        LET sandbox == lua.sandboxes[ret.k]
            random == {LUA_RANDOM_NAMES[i] : i \in 1..Len(LUA_RANDOM_NAMES)}
            time == {LUA_TIME_NAMES[i] : i \in 1..Len(LUA_TIME_NAMES)}
        IN  /\ (~sandbox.allow_random /\ ret.g \in random) => ret.res # "value"
            /\ (~sandbox.allow_time /\ ret.g \in time) => ret.res # "value"
            /\ ret.g \in {<<"io">>, <<"os", "execute">>} => ret.res # "value"

C25_InverseChunkNeighborhood ==
    ret.op = "inverse_chunk_neighborhood" =>
        /\ ret.res.chunk_neighborhood_of_inverse
             = ret.res.inverse_of_chunk_neighborhood
        /\ get_inverse(ret.n).lower_bounds = VNeg(ret.n.upper_bounds)
        /\ get_inverse(ret.n).upper_bounds = VNeg(ret.n.lower_bounds)

\* a neighborhood that is not its own mirror image and whose bounds are no
\* multiples of the chunk size
C25_Witness ==
    /\ ret.op = "inverse_chunk_neighborhood"
    /\ ret.n.lower_bounds[1] = 0 - grid.chunk_size - 1
    /\ ret.n.upper_bounds[1] = 1 - grid.chunk_size
    /\ ret.res.chunk_neighborhood_of_inverse.lower_bounds[1] = 0
    /\ ret.res.chunk_neighborhood_of_inverse.upper_bounds[1] = 2

\* The indices of a chunk napkin compared with get_cell: on every axis the
\* first two cells and the last cell of every chunk, which include every
\* cell of CellCoords that lies in the napkin.
SeamIndices(shape, chunk_size) ==
    {j \in [1..Len(shape) ->
              {c * chunk_size + r :
                  c \in 0..(MaxOf(shape) \div chunk_size - 1),
                  r \in {0, 1, chunk_size - 1}}] :
        \A i \in 1..Len(shape) : j[i] < shape[i]}

\* C26: get_chunk_napkin(k, N) has, on axis i, the extent of the chunk
\* neighborhood times the chunk size, and its entry at index j is
\* get_cell((k + chunk_lower) * chunk_size + j): chunks lie in ascending
\* chunk-coordinate order on every axis and chunks that are not stored read
\* as zeros.
C26_ChunkNapkinLayout ==
    ret.op = "get_chunk_napkin" =>
        LET d == grid.dimensions
            cn == get_chunk_neighborhood(grid, ret.n)
            origin == [i \in 1..d |->
                          (ret.k[i] + cn.lower_bounds[i]) * grid.chunk_size]
            laid(A) ==
                /\ A.shape = [i \in 1..d |->
                                 (cn.upper_bounds[i] - cn.lower_bounds[i] + 1)
                                 * grid.chunk_size]
                /\ A.shape = ret.res
                /\ \A j \in SeamIndices(A.shape, grid.chunk_size) :
                      A.at[j] = get_cell(grid, VAdd(origin, j)).ret
        IN  laid(get_chunk_napkin(grid, ret.k, ret.n).ret)

\* a chunk napkin of a 2-D grid, several chunks wide, that holds a non-zero
\* cell of another chunk than k and a chunk that is not stored
C26_Witness ==
    /\ ret.op = "get_chunk_napkin"
    /\ grid.dimensions = 2
    /\ ret.res[1] >= 2 * grid.chunk_size
    /\ ret.res[2] >= 2 * grid.chunk_size
    /\ \E c \in DOMAIN grid.chunks :
          /\ c # ret.k
          /\ grid.chunks[c] # ZeroChunk
          /\ \A i \in 1..2 :
                /\ ret.k[i] + get_chunk_neighborhood(grid, ret.n).lower_bounds[i] <= c[i]
                /\ c[i] <= ret.k[i] + get_chunk_neighborhood(grid, ret.n).upper_bounds[i]
    /\ ~has_chunk(grid, ret.k)

\* C27: with the chunk napkin of the cell's chunk passed in, get_cell_napkin
\* returns what it returns without one, for the global coordinates of the
\* cell and for its local coordinates alike, and the slice it takes lies
\* inside the chunk napkin on every axis.
C27_PrecomputedChunkNapkin ==
    ret.op = "get_cell_napkin(chunk_napkin)" =>
        /\ ret.res.of_global = get_cell_napkin(grid, ret.g, ret.n).ret
        /\ ret.res.of_local = ret.res.of_global
        /\ \A i \in 1..grid.dimensions :
              /\ 0 <= ret.res.start[i]
              /\ ret.res.start[i] <= ret.res.end[i]
              /\ ret.res.end[i] <= ret.res.napkin_shape[i]

\* a cell outside chunk 0 whose window reaches into the next chunk of the
\* chunk napkin and holds a non-zero cell
C27_Witness ==
    /\ ret.op = "get_cell_napkin(chunk_napkin)"
    /\ ret.k[1] = -1
    /\ ret.n.lower_bounds[1] = -1
    /\ ret.res.end[1] > 2 * grid.chunk_size
    /\ \E idx \in Indices(ret.res.of_local.shape) : ret.res.of_local.at[idx] # 0

\* C28: del_chunk_if_empty(k) changes no get_cell(g), and changes nothing
\* when chunk k is not stored or holds a nonzero cell; del_chunk(k) changes
\* nothing when chunk k is not stored, and otherwise removes key k and no
\* other, so that every cell of chunk k reads zero and every cell outside
\* reads as before.
C28_ChunkRemoval ==
    [][LET k == ret'.k
           stored == has_chunk(grid, k)
           \* the cells explored and every cell a stored chunk holds
           cells == CellCoords(grid) \cup
                    {[i \in 1..grid.dimensions |-> c[i] * grid.chunk_size + idx[i]] :
                        <<c, idx>> \in UNION {{c} \X DOMAIN grid.chunks[c] :
                                                 c \in DOMAIN grid.chunks}}
       IN  /\ ret'.op = "del_chunk_if_empty" =>
                 /\ \A g \in cells :
                       get_cell(grid', g).ret = get_cell(grid, g).ret
                 /\ (~stored \/ \E idx \in DOMAIN grid.chunks[k] :
                                    grid.chunks[k][idx] # 0) => grid' = grid
           /\ ret'.op = "del_chunk" =>
                 /\ ~stored => grid' = grid
                 /\ stored =>
                       /\ DOMAIN grid'.chunks = DOMAIN grid.chunks \ {k}
                       /\ \A g \in cells :
                             get_cell(grid', g).ret =
                                 IF get_coords_pair(grid, g).chunk = k THEN 0
                                 ELSE get_cell(grid, g).ret]_<<grid, ret.op>>

\* del_chunk has run on a grid that still stores a chunk with a nonzero
\* cell, after two writes
C28_Witness ==
    /\ ret.op = "del_chunk"
    /\ ~has_chunk(grid, ret.k)
    /\ nwrites = 2
    /\ \E c \in DOMAIN grid.chunks : grid.chunks[c] # ZeroChunk

\* C29: for d in 1..12 the chunk size of a new grid is 2^(12 div d), a
\* power of two, at least 2, with chunk_size^d <= 4096 (4096 for d = 1, 64
\* for d = 2, 2 for d = 12); get_coords_pair(g) gives 0 <= local <
\* chunk_size and chunk * chunk_size + local = g on every axis, for negative
\* g too.
C29_ChunkSizeAndCoordsPair ==
    LET d == grid.dimensions
        S == grid.chunk_size
    IN  /\ d \in 1..max_power
        /\ S = Pow2(max_power \div d)
        /\ \E n \in 1..max_power : S = Pow2(n)
        /\ S >= 2
        /\ Prod(grid.chunk_shape) <= 4096
        /\ d = 1 => S = 4096
        /\ d = 2 => S = 64
        /\ d = 12 => S = 2
        /\ ret.op = "get_coords_pair" =>
              \A i \in 1..d :
                  /\ 0 <= ret.res.local[i]
                  /\ ret.res.local[i] < S
                  /\ ret.res.chunk[i] * S + ret.res.local[i] = ret.g[i]

\* the pair of a cell with negative coordinates, one cell below a chunk
\* boundary, on a grid of 5 dimensions (chunk size 4)
C29_Witness ==
    /\ ret.op = "get_coords_pair"
    /\ grid.dimensions = 5
    /\ grid.chunk_size = 4
    /\ ret.g[1] = -5
    /\ ret.g[2] = -1
    /\ ret.res.chunk[1] = -2
    /\ ret.res.local[1] = 3

\* C30: Grid construction with a dimension count outside 1..12 fails with
\* the ValueError of get_recommended_chunk_size, so that every grid that
\* exists has a dimension count in 1..12 (the only ones for which
\* chunk_size is a positive integer).
C30_InvalidDimensionsRejected ==
    /\ (ret.op = "Grid" /\ ret.v \notin 1..max_power) => ret.res = "ValueError"
    /\ grid.dimensions \in 1..max_power

====
